---- MODULE Spec2Model ----
(***************************************************************************)
(* Workspace-wide code navigation over per-extension language servers:     *)
(* the server pool (LspService.get_server_for_file), the connection        *)
(* (LanguageServer), the textual symbol locator (find_symbol_position)     *)
(* and the cross-file aggregation (CodeBrowserAPI.goto_definition,         *)
(* goto_references, LspService.find_symbol).                               *)
(*                                                                         *)
(* Text is modelled character by character: a line is a tuple of           *)
(* one-character strings, a file a tuple of lines.  Line and column        *)
(* numbers are 0-based where the code's are (protocol positions) and       *)
(* 1-based where the code's are (result entries).                          *)
(***************************************************************************)
EXTENDS Integers, Sequences, FiniteSets, TLC

(***************************************************************************)
(* Bounds of the model.                                                    *)
(***************************************************************************)
\* processes the pool may launch in one behaviour
MaxConns == 2
\* public operations started in one behaviour
MaxRuns == 2
\* public operations per behaviour when the servers answer freely
MaxOps == 1
\* entries of one server response (a JSON array)
MaxResp == 2
\* requests one caller sends on the connection of the request-level model
MaxReqs == 2
\* messages the server of the request-level model writes
MaxMsgs == 3
\* polls of the inbound buffer before the wait of a request has elapsed
MaxPolls == 2
\* textDocument/didOpen notifications written on the connection of the
\* request-level model
MaxOpens == 1
MaxFrames == 2
\* the characters of the text of an outbound message
MaxChars == 3
\* lines of a file get_symbol_context is asked about
MaxLines == 4
\* lines of a file find_symbol_position is asked about
MaxLocateLines == 3

(***************************************************************************)
(* Characters and the regular expressions of find_symbol_position.         *)
(***************************************************************************)
\* \w of the re module, restricted to the characters the texts use
WordChars ==
    {"a", "c", "d", "e", "f", "g", "l", "n", "o", "p", "r", "s", "t", "u",
     "v", "w", "x", "_", "1", "5"}

\* \s of the re module, restricted likewise
SpaceChars == {" "}

IsWordAt(line, i) == i >= 1 /\ i <= Len(line) /\ line[i] \in WordChars

\* \b between the characters at (1-based) indices i-1 and i
Boundary(line, i) == IsWordAt(line, i - 1) # IsWordAt(line, i)

\* the literal needle starts at (1-based) index i of line
LiteralAt(line, needle, i) ==
    /\ i >= 1
    /\ i + Len(needle) - 1 <= Len(line)
    /\ \A k \in 1..Len(needle) : line[i + k - 1] = needle[k]

\* str.find: 0-based index of the first occurrence of needle, or -1
StrFind(line, needle) ==
    LET hits == {i \in 1..Len(line) : LiteralAt(line, needle, i)}
    IN  IF hits = {} THEN -1
        ELSE (CHOOSE i \in hits : \A j \in hits : i <= j) - 1

\* re.search(r'\b<sym>\b', line): 1-based starts of the matches
WordMatches(line, sym) ==
    {i \in 1..Len(line) :
        /\ LiteralAt(line, sym, i)
        /\ Boundary(line, i)
        /\ Boundary(line, i + Len(sym))}

\* re.search(r'\b<kw>\s+<sym>\b', line) finds a match
KeywordMatch(line, kw, sym) ==
    \E i \in 1..Len(line) :
        /\ Boundary(line, i)
        /\ LiteralAt(line, kw, i)
        /\ \E j \in (i + Len(kw) + 1)..Len(line) :
              /\ \A k \in (i + Len(kw))..(j - 1) : line[k] \in SpaceChars
              /\ LiteralAt(line, sym, j)
              /\ Boundary(line, j + Len(sym))

KwDef == <<"d", "e", "f">>
KwClass == <<"c", "l", "a", "s", "s">>

NoPos == [line |-> -1, character |-> -1]

\* variant: the tier of the symbol as a whole word is missing
LinePositionNoWord(line, line_num, sym) ==
    IF KeywordMatch(line, KwDef, sym) \/ KeywordMatch(line, KwClass, sym)
    THEN [line |-> line_num, character |-> StrFind(line, sym)]
    ELSE NoPos

\* the (line, character) the loop body returns for one line, or NoPos
LinePosition(line, line_num, sym) ==
    IF KeywordMatch(line, KwDef, sym)
    THEN [line |-> line_num, character |-> StrFind(line, sym)]
    ELSE IF KeywordMatch(line, KwClass, sym)
    THEN [line |-> line_num, character |-> StrFind(line, sym)]
    ELSE IF WordMatches(line, sym) # {}
    THEN [line |-> line_num,
          character |-> (CHOOSE i \in WordMatches(line, sym) :
                            \A j \in WordMatches(line, sym) : i <= j) - 1]
    ELSE NoPos

\* LanguageServer.find_symbol_position on the text of a file
find_symbol_position(lines, sym) ==
    LET hits == {n \in 1..Len(lines) : LinePosition(lines[n], n - 1, sym) # NoPos}
    IN  IF hits = {} THEN NoPos
        ELSE LET n == CHOOSE m \in hits : \A k \in hits : m <= k
             IN  LinePosition(lines[n], n - 1, sym)

(***************************************************************************)
(* Workspaces: the files of the index, in index order (extension by        *)
(* extension in the order of language_servers, then glob order).           *)
(***************************************************************************)
\* the keys of LspService.language_servers the workspaces use, in dict order
Exts == <<".py", ".c", ".js">>

ExtSet == {Exts[i] : i \in 1..Len(Exts)}

SymGo == <<"g", "o">>
SymF == <<"f">>

\* "def go(x):" / "  return x"
TextDecl == <<<<"d", "e", "f", " ", "g", "o", "(", "x", ")", ":">>,
              <<" ", " ", "r", "e", "t", "u", "r", "n", " ", "x">>>>

\* "go(5)"
TextCall == <<<<"g", "o", "(", "5", ")">>>>

\* "var gogo = class go"
TextClassExpr == <<<<"v", "a", "r", " ", "g", "o", "g", "o", " ", "=", " ", "c", "l", "a", "s", "s", " ", "g", "o">>>>

\* "new go()"
TextNew == <<<<"n", "e", "w", " ", "g", "o", "(", ")">>>>

\* "f = go(1)"
TextAssign == <<<<"f", " ", "=", " ", "g", "o", "(", "1", ")">>>>

File(name, ext, readable, text) ==
    [name |-> name, ext |-> ext, readable |-> readable, text |-> text]

\* one declaration and one call elsewhere, one extension
WsScenario ==
    <<File("a.py", ".py", TRUE, TextDecl), File("b.py", ".py", TRUE, TextCall)>>

\* a declaration line with a longer identifier before the keyword
WsClassExpr ==
    <<File("a.js", ".js", TRUE, TextClassExpr), File("b.js", ".js", TRUE, TextNew)>>

\* two extensions, and a file of the index that cannot be read
WsMixed ==
    <<File("a.py", ".py", FALSE, TextDecl), File("n.c", ".c", TRUE, TextAssign)>>

\* the <<workspace, symbol>> pairs a behaviour may be about
Inputs ==
    {<<WsScenario, SymGo>>, <<WsScenario, SymF>>, <<WsClassExpr, SymGo>>,
     <<WsMixed, SymGo>>}

\* file_index[ext]: the indices (into the workspace) of the files of one group
GroupOf(w, ext) == {i \in 1..Len(w) : w[i].ext = ext}

FileByName(w, name) == CHOOSE i \in 1..Len(w) : w[i].name = name

\* what open(abs_path).readlines() yields: the lines, or <<>> with ok = FALSE
ReadLines(f) == IF f.readable THEN [ok |-> TRUE, lines |-> f.text]
                ELSE [ok |-> FALSE, lines |-> <<>>]

\* find_symbol_position with its try/except around the read
LocateIn(f, sym) ==
    IF ReadLines(f).ok THEN find_symbol_position(ReadLines(f).lines, sym) ELSE NoPos

\* LocateIn for every file of every input, evaluated once
PosTable == [in \in Inputs |-> [i \in 1..Len(in[1]) |-> LocateIn(in[1][i], in[2])]]

(***************************************************************************)
(* What a server may answer.  A protocol position is a record              *)
(* [file, line, character], 0-based.                                       *)
(***************************************************************************)
\* the identifier (maximal run of word characters) that covers 0-based column c
TokenStart(line, c) ==
    CHOOSE i \in 1..(c + 1) :
        /\ \A k \in i..(c + 1) : IsWordAt(line, k)
        /\ ~IsWordAt(line, i - 1)

TokenEnd(line, c) ==
    CHOOSE j \in (c + 1)..Len(line) :
        /\ \A k \in (c + 1)..j : IsWordAt(line, k)
        /\ ~IsWordAt(line, j + 1)

TokenAt(line, c) == SubSeq(line, TokenStart(line, c), TokenEnd(line, c))

\* the starts of the identifiers of the workspace that contain sym: the
\* positions a server answering about sym is taken to report
ServerLocs(w, sym) ==
    {[file |-> w[i].name, line |-> n - 1, character |-> c - 1] :
        <<i, n, c>> \in
            {t \in (1..Len(w)) \X (1..2) \X (1..20) :
                /\ t[2] <= Len(w[t[1]].text)
                /\ t[3] <= Len(w[t[1]].text[t[2]])
                /\ IsWordAt(w[t[1]].text[t[2]], t[3])
                /\ TokenStart(w[t[1]].text[t[2]], t[3] - 1) = t[3]
                /\ StrFind(TokenAt(w[t[1]].text[t[2]], t[3] - 1), sym) >= 0}}

\* one entry of a definition or references result.  shape "Location" has the
\* keys uri and range, "LocationLink" targetUri and targetRange, "other"
\* neither uri nor targetUri, "norange" a uri and no range.
Entry(shape, loc) ==
    [shape |-> shape, uri |-> <<"file://", loc.file>>,
     line |-> loc.line, character |-> loc.character]

NoLoc == [file |-> "", line |-> 0, character |-> 0]

\* the position of the declaration the workspace holds for sym (the
\* identifier after the def or class keyword), if it holds one
DeclLocs(w, sym) ==
    {l \in ServerLocs(w, sym) :
        LET line == w[FileByName(w, l.file)].text[l.line + 1]
        IN  /\ TokenAt(line, l.character) = sym
            /\ \/ KeywordMatch(SubSeq(line, 1, l.character + Len(sym)), KwDef, sym)
               \/ KeywordMatch(SubSeq(line, 1, l.character + Len(sym)), KwClass, sym)}

Entries(w, sym) ==
    {Entry("Location", l) : l \in ServerLocs(w, sym)}
        \cup {Entry("LocationLink", l) : l \in DeclLocs(w, sym)}
        \cup {Entry("other", NoLoc), Entry("norange", NoLoc)}

SeqsUpTo(S, n) == UNION {[1..k -> S] : k \in 0..n}

\* the outcomes of one definition or references request, as _send_request and
\* the caller see them: no response within the timeout, a response without a
\* result key, a write that hit a broken pipe, or a result (null, one object,
\* or an array of at most MaxResp entries)
Outcomes(w, sym) ==
    {[kind |-> k, items |-> <<>>] : k \in {"timeout", "error", "broken_pipe", "null"}}
        \cup {[kind |-> "object", items |-> <<e>>] : e \in Entries(w, sym)}
        \cup {[kind |-> "list", items |-> s] : s \in SeqsUpTo(Entries(w, sym), MaxResp)}

Timeout == [kind |-> "timeout", items |-> <<>>]

\* an error response (no result key)
Declined == [kind |-> "error", items |-> <<>>]

\* Outcomes for every input, evaluated once
OutcomeTable == [in \in Inputs |-> Outcomes(in[1], in[2])]

(***************************************************************************)
(* LspService._process_locations and the result entries.                   *)
(***************************************************************************)
\* uri.replace('file://', ''), unquote, relpath: the workspace-relative name
RelPath(uri) == uri[2]

\* the entry appended for a well-formed location: 1-based line and column.
\* Its context key, computed from the file's text and the line alone, is
\* left out.
Result(sym, e) ==
    [symbol |-> sym, file |-> RelPath(e.uri),
     line |-> e.line + 1, column |-> e.character + 1]

\* the deduplication key of a result entry
Key(r) == <<r.file, r.line, r.column>>

Keys(rs) == {Key(rs[i]) : i \in 1..Len(rs)}

RECURSIVE ProcessEntries(_, _)
\* the loop of _process_locations: raised when an entry has no range
\* (KeyError), entries without uri and targetUri skipped
ProcessEntries(entries, sym) ==
    IF entries = <<>> THEN [raised |-> FALSE, results |-> <<>>]
    ELSE LET e == Head(entries)
             rest == ProcessEntries(Tail(entries), sym)
         IN  IF e.shape = "norange" \/ rest.raised
             THEN [raised |-> TRUE, results |-> <<>>]
             ELSE IF e.shape = "other" THEN rest
             ELSE [raised |-> FALSE, results |-> <<Result(sym, e)>> \o rest.results]

\* variant: a request without a response yields a placeholder location
AnswerPlaceholder(o) ==
    IF o.kind = "timeout"
    THEN [kind |-> "list", items |-> <<Entry("Location", NoLoc)>>]
    ELSE IF o.kind \in {"error", "broken_pipe"}
    THEN [kind |-> "null", items |-> <<>>]
    ELSE [kind |-> o.kind, items |-> o.items]

\* what find_definition / find_references return for an outcome: None when
\* there is no response or the response has no result, else the result
Answer(o) ==
    IF o.kind \in {"timeout", "error", "broken_pipe"}
    THEN [kind |-> "null", items |-> <<>>]
    ELSE [kind |-> o.kind, items |-> o.items]

\* Python truth of a result: a non-empty array or an object
Truthy(a) == a.kind = "object" \/ (a.kind = "list" /\ a.items # <<>>)

\* _process_locations(definition, symbol_name)["results"], reached only for a
\* truthy result (a single object is wrapped in a list)
process_locations(a, sym) == ProcessEntries(a.items, sym)

(***************************************************************************)
(* LanguageServer: one connection object.  process is the handle           *)
(* (self.process is not None), alive the state of the operating-system     *)
(* process the handle was created for (poll() is None).                    *)
(***************************************************************************)
\* told: the files announced to the process of this connection (the
\* textDocument/didOpen notifications written to it)
Conn(ext, process, alive, initialized) ==
    [ext |-> ext, process |-> process, alive |-> alive, is_initialized |-> initialized,
     told |-> {}]

is_running(c) == c.process /\ c.alive

\* how LanguageServer.start can end: the launch raises, the process exits
\* before the handshake is written, the handshake write hits a broken pipe,
\* no response with a result arrives, the handshake succeeds, or it succeeds
\* and the write of the initialized notification hits a broken pipe
StartOutcomes ==
    {"launch_fail", "exit_early", "broken_pipe", "no_handshake", "ok", "ok_pipe_broken"}

\* the connection object after start() with outcome so
Started(ext, so) ==
    CASE so = "launch_fail" -> Conn(ext, FALSE, FALSE, FALSE)
      [] so = "exit_early" -> Conn(ext, TRUE, FALSE, FALSE)
      [] so = "broken_pipe" -> Conn(ext, FALSE, FALSE, FALSE)
      [] so = "no_handshake" -> Conn(ext, TRUE, TRUE, FALSE)
      [] so = "ok" -> Conn(ext, TRUE, TRUE, TRUE)
      [] so = "ok_pipe_broken" -> Conn(ext, FALSE, FALSE, TRUE)

\* the value start() returns
StartResult(so) == so \in {"ok", "ok_pipe_broken"}

\* _send_request on connection c with outcome o: nothing when not running,
\* else a write that hits a broken pipe drops the handle (the pipe breaks
\* because the process is gone)
SendRequest(c, o) ==
    IF ~is_running(c) THEN c
    ELSE [c EXCEPT !.process = (o.kind # "broken_pipe"),
                   !.alive = (o.kind # "broken_pipe")]

\* _send_notification of textDocument/didOpen for file name on connection c;
\* piped = the write hit a broken pipe
SendNotification(c, name, piped) ==
    IF ~is_running(c) THEN c
    ELSE IF piped THEN [c EXCEPT !.process = FALSE, !.alive = FALSE]
    ELSE [c EXCEPT !.told = @ \cup {name}]

\* the response _send_request returns to find_definition / find_references
Response(c, o) == IF is_running(c) THEN o ELSE [kind |-> "timeout", items |-> <<>>]

(***************************************************************************)
(* LspService.get_server_for_file.                                         *)
(***************************************************************************)
NoCall == [ext |-> "", server |-> 0, running |-> FALSE, initialized |-> FALSE]

\* the record of a call for extension ext that returned connection srv of cs
\* (0 = None), with the state that connection was returned in
Call(cs, ext, srv) ==
    [ext |-> ext, server |-> srv,
     running |-> srv # 0 /\ is_running(cs[srv]),
     initialized |-> srv # 0 /\ cs[srv].is_initialized]

\* variant: the registered connection is reused whatever its state
ReusableRegistered(cs, sv, ext) == sv[ext] # 0

\* the registered connection is reused
Reusable(cs, sv, ext) == sv[ext] # 0 /\ is_running(cs[sv[ext]])

\* cs: the connection objects made so far, sv: self.servers (0 = no entry).
\* Yields the new cs and sv, the connection returned (0 = None) and a record
\* of the call.
get_server_for_file(cs, sv, ext, so) ==
    IF Reusable(cs, sv, ext)
    THEN [conns |-> cs, servers |-> sv, server |-> sv[ext],
          call |-> Call(cs, ext, sv[ext])]
    ELSE LET n == Len(cs) + 1
             srv == IF StartResult(so) THEN n ELSE 0
         IN  [conns |-> Append(cs, Started(ext, so)),
              servers |-> IF StartResult(so) THEN [sv EXCEPT ![ext] = n] ELSE sv,
              server |-> srv,
              call |-> Call(Append(cs, Started(ext, so)), ext, srv)]

(***************************************************************************)
(* The values the public operations return (before json.dumps).            *)
(***************************************************************************)
Ops == {"goto_definition", "goto_references", "find_symbol"}

NoRet == [none |-> TRUE]

ErrorText(o) ==
    CASE o = "goto_definition" -> "No definition found for"
      [] o = "goto_references" -> "No references found for"
      [] o = "find_symbol" -> "No symbols found for"

\* {"error": f"No ... found for '{symbol_name}'"}
ErrorValue(o, sym) == [error |-> <<ErrorText(o), sym>>]

\* {"results": results}
ResultsValue(rs) == [results |-> rs]

\* the operation did not return: an exception left it
Escaped(e) == [exception |-> e]

\* variant: the results key whatever the list holds
ReturnValueAlwaysResults(o, sym, rs) == ResultsValue(rs)

\* the return statement after the loops
ReturnValue(o, sym, rs) == IF rs = <<>> THEN ErrorValue(o, sym) ELSE ResultsValue(rs)

RECURSIVE AddUniqueNoExcluded(_, _, _, _)
\* variant: the key is not looked up in excluded
AddUniqueNoExcluded(rs, seen, excluded, new) ==
    IF new = <<>> THEN [results |-> rs, seen |-> seen]
    ELSE LET r == Head(new)
         IN  IF Key(r) \notin seen
             THEN AddUniqueNoExcluded(Append(rs, r), seen \cup {Key(r)}, excluded, Tail(new))
             ELSE AddUniqueNoExcluded(rs, seen, excluded, Tail(new))

RECURSIVE AddUniqueNoSeen(_, _, _, _)
\* variant: the key is not looked up in seen
AddUniqueNoSeen(rs, seen, excluded, new) ==
    IF new = <<>> THEN [results |-> rs, seen |-> seen]
    ELSE LET r == Head(new)
         IN  IF Key(r) \notin excluded
             THEN AddUniqueNoSeen(Append(rs, r), seen \cup {Key(r)}, excluded, Tail(new))
             ELSE AddUniqueNoSeen(rs, seen, excluded, Tail(new))

RECURSIVE AddUnique(_, _, _, _)
\* the inner loop of goto_definition / goto_references: append each entry
\* whose key is neither excluded nor seen, remembering its key
AddUnique(rs, seen, excluded, new) ==
    IF new = <<>> THEN [results |-> rs, seen |-> seen]
    ELSE LET r == Head(new)
         IN  IF Key(r) \notin excluded /\ Key(r) \notin seen
             THEN AddUnique(Append(rs, r), seen \cup {Key(r)}, excluded, Tail(new))
             ELSE AddUnique(rs, seen, excluded, Tail(new))

\* seen_locations = set() at the start of an operation
FreshSeen(old) == {}

\* what the except clause of the per-file try leaves of the results gathered so far
AfterException(rs) == rs

\* variant: an exception in the body ends the loop
NextFileAbort(i, n, raised) == IF raised THEN n + 1 ELSE i + 1

\* the file the loops visit after file i of n (n + 1: the loop is over)
NextFile(i, n, raised) == i + 1

(***************************************************************************)
(* LspService.find_symbol: the workspace-symbol results.                   *)
(***************************************************************************)
\* LspService._symbol_kind_to_string
symbol_kind_to_string(kind) ==
    LET kinds == <<"file", "module", "namespace", "package", "class", "method",
                   "property", "field", "constructor", "enum", "interface",
                   "function", "variable", "constant", "string", "number",
                   "boolean", "array", "object", "key", "null", "enum member",
                   "struct", "event", "operator", "type parameter">>
    IN  IF kind \in 1..Len(kinds) THEN kinds[kind] ELSE "symbol"

\* the kind number the modelled servers report: Function
KindFunction == 12

\* the entries of a workspace/symbol result: SymbolInformation with a full
\* location ("Location") or with a location that has no range ("norange")
SymEntries(w, sym) ==
    {Entry("Location", l) : l \in ServerLocs(w, sym)} \cup {Entry("norange", NoLoc)}

SymOutcomes(w, sym) ==
    {[kind |-> k, items |-> <<>>] : k \in {"timeout", "error", "broken_pipe", "null"}}
        \cup {[kind |-> "list", items |-> s] : s \in SeqsUpTo(SymEntries(w, sym), MaxResp)}

\* SymOutcomes for every input, evaluated once
SymOutcomeTable == [in \in Inputs |-> SymOutcomes(in[1], in[2])]

\* the entry appended for a workspace symbol; the modelled servers report
\* the symbol asked for under its own name
SymbolResult(sym, e) ==
    [name |-> sym, kind |-> symbol_kind_to_string(KindFunction),
     file |-> RelPath(e.uri), line |-> e.line + 1]

RECURSIVE process_workspace_symbols(_, _)
\* LspService._process_workspace_symbols: raised when symbol['location']['range']
\* is missing (KeyError)
process_workspace_symbols(entries, sym) ==
    IF entries = <<>> THEN [raised |-> FALSE, results |-> <<>>]
    ELSE LET e == Head(entries)
             rest == process_workspace_symbols(Tail(entries), sym)
         IN  IF e.shape = "norange" \/ rest.raised
             THEN [raised |-> TRUE, results |-> <<>>]
             ELSE [raised |-> FALSE, results |-> <<SymbolResult(sym, e)>> \o rest.results]

(***************************************************************************)
(* Servers that answer from a fixed analysis of the workspace: per file    *)
(* one answer to the definition request and one to the references request  *)
(* sent for it, and one answer to workspace/symbol.                        *)
(***************************************************************************)
\* the declaration and the call of WsScenario
LocDecl == [file |-> "a.py", line |-> 0, character |-> 4]
LocUse == [file |-> "b.py", line |-> 0, character |-> 0]

ListOf(locs) == [kind |-> "list", items |-> [i \in 1..Len(locs) |-> Entry("Location", locs[i])]]

Oracles ==
    [definition : [1..Len(WsScenario) -> {ListOf(<<>>), ListOf(<<LocDecl>>)}],
     references : [1..Len(WsScenario) -> {ListOf(<<>>), ListOf(<<LocDecl, LocUse>>)}],
     symbol : {ListOf(<<>>), ListOf(<<LocDecl>>)}]

\* the value of oracle in mode "free", where it is not consulted
NoOracle ==
    [definition |-> [i \in 1..2 |-> Timeout], references |-> [i \in 1..2 |-> Timeout],
     symbol |-> Timeout]

(***************************************************************************)
(* LspService.get_symbol_context: the excerpt around a line of a file.     *)
(* A rendered line is [kind, n, text]: kind "target" stands for the arrow  *)
(* prefix, "line" for the prefix of two blanks, n is the number printed    *)
(* and text the line without its trailing white space.  The diagnostics    *)
(* are the kinds "out_of_range" (n = the line asked for) and "error".      *)
(* Lines are held without their line terminator.                           *)
(***************************************************************************)
\* lines before and after the target in the fixed window
ContextRadius == 5

Tab == "\t"

\* the white space str.strip removes, restricted to the characters of the texts
WhiteChars == {" ", Tab}

AllWhite(line) == \A k \in 1..Len(line) : line[k] \in WhiteChars

\* the number of white characters the line starts with
LeadingWhite(line) ==
    IF AllWhite(line) THEN Len(line)
    ELSE (CHOOSE k \in 1..Len(line) :
             line[k] \notin WhiteChars /\ \A j \in 1..(k - 1) : line[j] \in WhiteChars) - 1

\* the number of white characters the line ends with
TrailingWhite(line) ==
    IF AllWhite(line) THEN Len(line)
    ELSE Len(line) - (CHOOSE k \in 1..Len(line) :
                         line[k] \notin WhiteChars
                         /\ \A j \in (k + 1)..Len(line) : line[j] \in WhiteChars)

lstrip(line) == SubSeq(line, LeadingWhite(line) + 1, Len(line))

rstrip(line) == SubSeq(line, 1, Len(line) - TrailingWhite(line))

strip(line) == lstrip(rstrip(line))

\* str.startswith
StartsWith(line, prefix) == LiteralAt(line, prefix, 1)

\* ' ' * n
Spaces(n) == [k \in 1..n |-> " "]

\* "def " in line or "class " in line
IsDeclaration(line) ==
    \/ StrFind(line, KwDef \o <<" ">>) # -1
    \/ StrFind(line, KwClass \o <<" ">>) # -1

\* lines[i] of Python for a 0-based i that may be negative
PyAt(lines, i) == lines[IF i >= 0 THEN i + 1 ELSE Len(lines) + i + 1]

\* f"{prefix}{i+1}: {lines[i].rstrip()}" for the 0-based i
Rendered(kind, i, line) == [kind |-> kind, n |-> i + 1, text |-> rstrip(line)]

\* f"Line {line} is out of range"
OutOfRangeLine(line) == [kind |-> "out_of_range", n |-> line, text |-> <<>>]

\* f"Error: {str(e)}"
ErrorLine == [kind |-> "error", n |-> 0, text |-> <<>>]

RECURSIVE BodyIndent(_, _, _)
\* the first loop of the declaration branch from the 0-based i on: the empty
\* and comment lines met are appended to acc; yields the indentation of the
\* first other line (-1 for None) and the list
BodyIndent(lines, i, acc) ==
    IF i >= Len(lines) THEN [indent |-> -1, lines |-> acc]
    ELSE LET stripped_line == lstrip(lines[i + 1])
         IN  IF stripped_line = <<>> \/ StartsWith(stripped_line, <<"#">>)
             THEN BodyIndent(lines, i + 1, Append(acc, Rendered("line", i, lines[i + 1])))
             ELSE [indent |-> Len(lines[i + 1]) - Len(stripped_line), lines |-> acc]

RECURSIVE BodyLines(_, _, _, _)
\* the second loop of the declaration branch from the 0-based i on
BodyLines(lines, i, current_indent, acc) ==
    IF i >= Len(lines) THEN acc
    ELSE IF /\ strip(lines[i + 1]) # <<>>
            /\ ~StartsWith(lines[i + 1], Spaces(current_indent))
            /\ ~StartsWith(lines[i + 1], <<Tab>>)
    THEN acc
    ELSE BodyLines(lines, i + 1, current_indent,
                   Append(acc, Rendered("line", i, lines[i + 1])))

\* the declaration branch: the signature, then the two loops
declaration_context(lines, line_index) ==
    LET func_lines == <<Rendered("target", line_index, PyAt(lines, line_index))>>
        first == BodyIndent(lines, line_index + 1, func_lines)
    IN  IF first.indent = -1 THEN first.lines
        ELSE BodyLines(lines, line_index + 1, first.indent, first.lines)

\* the fixed window around the line
window_context(lines, line_index) ==
    LET context_start == IF line_index - ContextRadius > 0
                         THEN line_index - ContextRadius ELSE 0
        context_end == IF line_index + ContextRadius + 1 < Len(lines)
                       THEN line_index + ContextRadius + 1 ELSE Len(lines)
    IN  [k \in 1..(context_end - context_start) |->
            LET i == context_start + k - 1
            IN  Rendered(IF i = line_index THEN "target" ELSE "line", i, lines[i + 1])]

\* variant: only the upper end of the range is tested
OutOfRangeHighOnly(line_index, n) == line_index >= n

\* line_index < 0 or line_index >= len(lines)
OutOfRange(line_index, n) == line_index < 0 \/ line_index >= n

\* {"file": ..., "line": line, "context": context}
ContextValue(name, line, context) == [file |-> name, line |-> line, context |-> context]

\* LspService.get_symbol_context(file_path, line) for the file f; whatever
\* is raised inside the try block ends in the except clause
get_symbol_context(f, line) ==
    LET lines == ReadLines(f).lines
        line_index == line - 1
    IN  ContextValue(f.name, line,
            IF ~ReadLines(f).ok THEN <<ErrorLine>>
            ELSE IF OutOfRange(line_index, Len(lines)) THEN <<OutOfRangeLine(line)>>
            ELSE IF line_index < -Len(lines) \/ line_index >= Len(lines) THEN <<ErrorLine>>
            ELSE IF IsDeclaration(PyAt(lines, line_index))
            THEN declaration_context(lines, line_index)
            ELSE window_context(lines, line_index))

\* the lines the files asked about are made of: "def f():", "x", "  x",
\* "    x", the empty line, "#", and "x" after a tab
ContextLines ==
    {<<"d", "e", "f", " ", "f", "(", ")", ":">>,
     <<"x">>,
     <<" ", " ", "x">>,
     <<" ", " ", " ", " ", "x">>,
     <<>>,
     <<"#">>,
     <<Tab, "x">>}


\* the files get_symbol_context is asked about: every text, and a file
\* that cannot be read
ContextFiles ==
    {File("m.py", ".py", TRUE, t) : t \in UNION {[1..n -> ContextLines] : n \in 0..MaxLines}}
        \cup {File("m.py", ".py", FALSE, <<>>)}

\* the line numbers asked for
LineArgs == 0..(MaxLines + 1)

(***************************************************************************)
(* One connection at the level of its messages: LanguageServer._send_request *)
(* polling response_queue while the thread of _read_responses fills it.    *)
(* A message is [n, id, kind, intime]: n numbers the messages in the order  *)
(* the server wrote them, id is its id key, 0 when it has none, kind is    *)
(* "result" for the response to a request of the client, "request" for a   *)
(* request of the server's own and "notification"; intime tells that it is *)
(* the response to the request waiting and was put into the queue before   *)
(* the wait elapsed.                                                       *)
(***************************************************************************)
NoMsg == [n |-> 0, id |-> 0, kind |-> "none", intime |-> FALSE]

\* up: is_running(); request_id; pc: where _send_request stands; ticks: the
\* sleeps of the current wait; responses: the local list of the current
\* poll; queue: response_queue; ret: what the last request returned; done:
\* requests returned; serial, delivered, returned: the messages put into the
\* queue so far and those a request returned; sent: the messages written to
\* the server, in order, as [method, id]; closed: the ids of the requests
\* whose wait is over; phase: where start() and initialize() stand
WireInit ==
    [up |-> TRUE, request_id |-> 0, pc |-> "idle", ticks |-> 0, responses |-> <<>>,
     queue |-> <<>>, ret |-> NoMsg, done |-> 0, serial |-> 0, delivered |-> {},
     returned |-> {}, sent |-> <<>>, closed |-> {}, phase |-> "new"]

\* time.time() - start_time < timeout is false
Elapsed(ticks) == ticks >= MaxPolls

\* variant: any message that carries an id is taken
MatchesAnyId(m, request_id) == m.id # 0

\* 'id' in response and response['id'] == self.request_id
Matches(m, request_id) == m.id # 0 /\ m.id = request_id

(***************************************************************************)
(* The bytes a server writes to its standard output and the thread that    *)
(* reads them.  A byte is a one-character string, a text a tuple of bytes. *)
(***************************************************************************)
\* 'Content-Length: ', the sixteen bytes line[16:] skips
ContentLengthPrefix ==
    <<"C", "o", "n", "t", "e", "n", "t", "-", "L", "e", "n", "g", "t", "h", ":", " ">>

\* what a server can write as one unit: three well-framed messages (the
\* second with the bytes of a blank line inside its content, the third with
\* another header line before the length) and two pieces that are not: a
\* length that is not a number, and one stray byte before the next header
ServerFrames ==
    LET blank == <<"\r", "\n", "\r", "\n">>
        framed(head, len, content) ==
            [bytes |-> head \o ContentLengthPrefix \o len \o blank \o content,
             content |-> content, framed |-> TRUE]
    IN  {framed(<<>>, <<"3">>, <<"[", "1", "]">>),
         framed(<<>>, <<"6">>, <<"[", "\r", "\n", "\r", "\n", "]">>),
         framed(<<"A", ":", " ", "b", "\r", "\n">>, <<"3">>, <<"[", "2", "]">>),
         [bytes |-> ContentLengthPrefix \o <<"x">> \o blank, content |-> <<>>, framed |-> FALSE],
         [bytes |-> <<"z">>, content |-> <<>>, framed |-> FALSE]}

\* the loop over header.decode('utf-8').split('\r\n'): the number after the
\* first line that starts with 'Content-Length: '; None (-1) when no line
\* does; and int() raising ValueError (-2) when the rest of that line is
\* not a number.  header ends with a blank line
ContentLength(header) ==
    LET n == Len(header)
        starts == {i \in 1..n :
                      /\ i = 1 \/ (i > 2 /\ header[i - 2] = "\r" /\ header[i - 1] = "\n")
                      /\ i + 15 <= n
                      /\ \A k \in 1..16 : header[i + k - 1] = ContentLengthPrefix[k]}
        first == CHOOSE i \in starts : \A j \in starts : i <= j
        stop == CHOOSE j \in (first + 16)..(n - 1) :
                    /\ header[j] = "\r" /\ header[j + 1] = "\n"
                    /\ \A k \in (first + 16)..(j - 1) : ~(header[k] = "\r" /\ header[k + 1] = "\n")
        text == SubSeq(header, first + 16, stop - 1)
        digit == [c \in {"0", "1", "2", "3", "4", "5", "6", "7", "8", "9"} |->
                     CASE c = "0" -> 0 [] c = "1" -> 1 [] c = "2" -> 2 [] c = "3" -> 3
                       [] c = "4" -> 4 [] c = "5" -> 5 [] c = "6" -> 6 [] c = "7" -> 7
                       [] c = "8" -> 8 [] c = "9" -> 9]
        RECURSIVE int(_)
        int(t) == IF t = <<>> THEN 0 ELSE 10 * int(SubSeq(t, 1, Len(t) - 1)) + digit[t[Len(t)]]
    IN  IF starts = {} THEN -1
        ELSE IF text = <<>> \/ \E k \in 1..Len(text) : text[k] \notin DOMAIN digit THEN -2
        ELSE int(text)

\* the thread of _read_responses when it starts and the server about to
\* write the frames.  out: the bytes the server will still write; pipe: the
\* bytes written and not yet read; alive: is_running(); pc: "top" (the test
\* of the outer loop), "header", "content", "stopped" (the loop ended) or
\* "dead" (the loop was left on an exception); header, content_length: the
\* locals; queue: response_queue; written: the frames, for reference
ReaderInit(frames) ==
    LET RECURSIVE bytes(_)
        bytes(fs) == IF fs = <<>> THEN <<>> ELSE Head(fs).bytes \o bytes(Tail(fs))
    IN  [out |-> bytes(frames), pipe |-> <<>>, alive |-> TRUE, pc |-> "top", header |-> <<>>,
         content_length |-> -1, queue |-> <<>>, written |-> frames]

(***************************************************************************)
(* State.                                                                  *)
(***************************************************************************)
VARIABLES
    mode,                 \* how the servers behave: "free" or "oracle", fixed
    oracle,               \* what the servers answer from in mode "oracle", fixed
    ws,                   \* (in the index model: the directory tree, see IndexTrees)
                          \* the indexed files (LspService.file_index), fixed
    symbol,               \* the symbol the operations of this behaviour ask about
    conns,                \* every LanguageServer object made, in creation order
    servers,              \* LspService.servers: extension -> index in conns, 0 = none
    open_documents,       \* LspService.open_documents (by file name)
    op,                   \* the public operation in progress, or "idle"
    pass,                 \* goto_references: 1 = definitions pass, 2 = references pass
    cursor,               \* the file (or, for find_symbol, extension) the loop is at
    stage,                \* position inside the loop body
    server,               \* the local variable server of the loop body
    results,              \* the local list results
    seen_locations,       \* the local set seen_locations
    definition_locations, \* the local set definition_locations
    ret,                  \* what the last finished operation returned
    runs,                 \* operations started so far
    hist,                 \* per operation: its first return value and how often it returned
    lastOp,               \* the operation that finished last
    lastCall,             \* the get_server_for_file call of the latest step, if any
    scanned,              \* the <<pass, file>> loop bodies entered by the operation;
                          \* for find_symbol, per extension group g: <<1, g>> = a
                          \* workspace/symbol request was written, <<0, g>> = there
                          \* was no running connection to write it to
    events,               \* what has happened so far (see Tags)
    wire,                 \* one connection at the level of its messages (see WireInit)
    reader                \* the thread of _read_responses at the level of bytes

\* the variables of the pool and the operations
poolvars ==
    <<mode, oracle, ws, symbol, conns, servers, open_documents, op, pass, cursor,
      stage, server, results, seen_locations, definition_locations, ret, runs, hist, lastOp,
      lastCall, scanned, events>>

vars == <<poolvars, wire, reader>>

\* everything but the servers' behaviour and the input
InitRest ==
    /\ conns = <<>>
    /\ servers = [e \in ExtSet |-> 0]
    /\ open_documents = {}
    /\ op = "idle"
    /\ pass = 1
    /\ cursor = 1
    /\ stage = "get_server"
    /\ server = 0
    /\ results = <<>>
    /\ seen_locations = {}
    /\ definition_locations = {}
    /\ ret = NoRet
    /\ runs = 0
    /\ hist = [o \in Ops |-> [first |-> NoRet, n |-> 0]]
    /\ lastOp = "idle"
    /\ lastCall = NoCall
    /\ scanned = {}
    /\ events = {}
    /\ wire = WireInit
    /\ reader \in IF mode = "reader"
                 THEN {ReaderInit(fs) : fs \in UNION {[1..n -> ServerFrames] : n \in 0..MaxFrames}}
                 ELSE {ReaderInit(<<>>)}

\* the servers answer freely: any input, any outcome of any step
Init ==
    /\ mode = "free"
    /\ oracle = NoOracle
    /\ \E in \in Inputs : ws = in[1] /\ symbol = in[2]
    /\ InitRest

\* the servers answer from a fixed analysis of the workspace
InitOracle ==
    /\ mode = "oracle"
    /\ ws = WsScenario
    /\ symbol = SymGo
    /\ oracle \in Oracles
    /\ InitRest

\* the start outcomes to consider: one (unused) when no launch happens
StartChoices(cs, sv, ext) ==
    IF Reusable(cs, sv, ext) THEN {"ok"}
    ELSE StartOutcomes

\* whether a write may hit a broken pipe
Pipes == IF mode = "oracle" THEN {FALSE} ELSE BOOLEAN

\* a launch is within the bound
CanCall(cs, sv, ext) == Reusable(cs, sv, ext) \/ Len(cs) < MaxConns

\* the first lines of a public operation
Start(o) ==
    /\ op = "idle"
    /\ runs < (IF mode = "free" THEN MaxOps ELSE MaxRuns)
    /\ op' = o
    /\ pass' = 1
    /\ cursor' = 1
    /\ stage' = "get_server"
    /\ server' = 0
    /\ results' = <<>>
    /\ seen_locations' = FreshSeen(seen_locations)
    /\ definition_locations' = {}
    /\ ret' = NoRet
    /\ runs' = runs + 1
    /\ lastCall' = NoCall
    /\ scanned' = {}
    /\ UNCHANGED <<reader, wire, mode, oracle, ws, symbol, conns, servers, open_documents, hist,
                   lastOp, events>>

\* in mode "oracle", an answer is lost when no server can be had
NoServerTags == IF mode = "oracle" THEN {"lost"} ELSE {}

\* the request the loop body at hand sends
Method == IF op = "goto_references" /\ pass = 2 THEN "references" ELSE "definition"

Scanning == op \in {"goto_definition", "goto_references"} /\ cursor <= Len(ws)

\* variant: one loop, the references body of a file after its definitions body
MovedInterleaved(raised) ==
    LET n == NextFile(cursor, Len(ws), raised)
    IN  IF op = "goto_references" /\ pass = 1
        THEN [pass |-> 2, cursor |-> cursor]
        ELSE [pass |-> IF op = "goto_references" /\ n <= Len(ws) THEN 1 ELSE pass,
              cursor |-> n]

\* where the loops stand after the body of the current file
Moved(raised) ==
    LET n == NextFile(cursor, Len(ws), raised)
    IN  IF n > Len(ws) /\ op = "goto_references" /\ pass = 1
        THEN [pass |-> 2, cursor |-> 1]
        ELSE [pass |-> pass, cursor |-> n]

\* server = get_server_for_file(file_path); if not server: continue
ScanGetServer ==
    /\ Scanning
    /\ stage = "get_server"
    /\ CanCall(conns, servers, ws[cursor].ext)
    /\ \E so \in StartChoices(conns, servers, ws[cursor].ext) :
          LET g == get_server_for_file(conns, servers, ws[cursor].ext, so)
          IN  /\ conns' = g.conns
              /\ servers' = g.servers
              /\ lastCall' = g.call
              /\ server' = g.server
              /\ scanned' = scanned \cup {<<pass, cursor>>}
              /\ IF g.server = 0
                 THEN /\ pass' = Moved(FALSE).pass
                      /\ cursor' = Moved(FALSE).cursor
                      /\ stage' = "get_server"
                      /\ events' = events \cup {"failure", "unfaithful"} \cup NoServerTags
                 ELSE /\ stage' = "open"
                      /\ UNCHANGED <<pass, cursor, events>>
    /\ UNCHANGED <<reader, wire, mode, oracle, ws, symbol, open_documents, op, results, seen_locations,
                   definition_locations, ret, runs, hist, lastOp>>

\* variant: no document counts as open
IsOpenNever(docs, name) == FALSE

\* uri in self.open_documents
IsOpen(docs, name) == name \in docs

\* self.lsp_service.open_document(file_path)
ScanOpen ==
    /\ Scanning
    /\ stage = "open"
    /\ CanCall(conns, servers, ws[cursor].ext)
    /\ \E so \in StartChoices(conns, servers, ws[cursor].ext), piped \in Pipes :
          LET f == ws[cursor]
              g == get_server_for_file(conns, servers, f.ext, so)
              sends == /\ g.server # 0
                       /\ ~IsOpen(open_documents, f.name)
                       /\ ReadLines(f).ok
          IN  /\ piped => (sends /\ is_running(g.conns[g.server]))
              /\ conns' = IF sends
                          THEN [g.conns EXCEPT ![g.server] = SendNotification(@, f.name, piped)]
                          ELSE g.conns
              /\ servers' = g.servers
              /\ lastCall' = g.call
              /\ open_documents' = IF sends THEN open_documents \cup {f.name}
                                   ELSE open_documents
              /\ events' = events
                    \cup (IF g.server = 0 \/ ~ReadLines(f).ok THEN {"failure"} ELSE {})
                    \cup (IF /\ sends
                             /\ is_running(g.conns[g.server])
                             /\ ~piped
                             /\ f.name \in g.conns[g.server].told
                          THEN {"reopened"} ELSE {})
    /\ stage' = "query"
    /\ UNCHANGED <<reader, wire, mode, oracle, ws, symbol, op, pass, cursor, server, results, seen_locations,
                   definition_locations, ret, runs, hist, lastOp, scanned>>

\* what the history variable events may hold: a file could not be processed
\* (no server, unreadable, an exception); an entry was dropped because its
\* key had been seen; an entry was dropped because its key is a definition's;
\* the server did not resolve an occurrence of the symbol to its declaration
\* and, in mode "oracle": a non-empty answer was lost (a timeout, or the
\* request was not sent), a timeout took the place of an empty answer (in
\* the first operation, in a later one), the server declined a query about a
\* file it had not been told of; and: a didOpen notification was written to
\* a connection for a file announced on it before
Tags ==
    {"failure", "duplicate", "excluded", "unfaithful", "lost", "subst1", "subst2",
     "declined", "reopened"}

\* the outcome is the one location loc, in either shape
ResolvesTo(o, loc) ==
    /\ o.kind \in {"list", "object"}
    /\ Len(o.items) = 1
    /\ o.items[1].shape \in {"Location", "LocationLink"}
    /\ RelPath(o.items[1].uri) = loc.file
    /\ o.items[1].line = loc.line
    /\ o.items[1].character = loc.character

\* the position is inside an occurrence of the symbol as a whole identifier
OnSymbol(f, pos, sym) ==
    /\ pos # NoPos
    /\ TokenAt(f.text[pos.line + 1], pos.character) = sym

\* OnSymbol at the position find_symbol_position returns, per input and file
OnSymbolTable ==
    [in \in Inputs |-> [i \in 1..Len(in[1]) |->
        OnSymbol(in[1][i], LocateIn(in[1][i], in[2]), in[2])]]

DeclTable == [in \in Inputs |-> DeclLocs(in[1], in[2])]

\* the events of one query step
QueryTags(pos, c, o, p, excluded, add, defpass) ==
    (IF p.raised \/ ~ReadLines(ws[cursor]).ok THEN {"failure"} ELSE {})
    \cup (IF /\ ~defpass
             /\ Cardinality({i \in 1..Len(p.results) : Key(p.results[i]) \notin excluded})
                    > Len(add.results) - Len(results)
          THEN {"duplicate"} ELSE {})
    \cup (IF ~defpass /\ Keys(p.results) \cap excluded # {} THEN {"excluded"} ELSE {})
    \cup (IF /\ pos # NoPos
             /\ \/ ~is_running(c)
                \/ /\ OnSymbolTable[<<ws, symbol>>][cursor]
                   /\ \E d \in DeclTable[<<ws, symbol>>] : ~ResolvesTo(o, d)
          THEN {"unfaithful"} ELSE {})

\* the outcomes to consider for a request on connection c: one when it is
\* not running (nothing is sent); any of all in mode "free"; in mode
\* "oracle" the answer base, a timeout, or, when the server does not know
\* the file, an error response
QueryChoices(c, known, base, all) ==
    IF ~is_running(c) THEN {Timeout}
    ELSE IF mode = "free" THEN all
    ELSE {base, Timeout} \cup (IF known THEN {} ELSE {Declined})

\* the events of a request in mode "oracle"
OracleTags(c, o, base) ==
    IF mode = "free" THEN {}
    ELSE (IF Truthy(Answer(base)) /\ (~is_running(c) \/ o = Timeout) THEN {"lost"} ELSE {})
         \cup (IF ~Truthy(Answer(base)) /\ is_running(c) /\ o = Timeout
               THEN {IF runs = 1 THEN "subst1" ELSE "subst2"} ELSE {})
         \cup (IF is_running(c) /\ o = Declined /\ o # base THEN {"declined"} ELSE {})

\* find_symbol_position, the definition or references request, and the
\* processing of its result, to the end of the loop body
ScanQuery ==
    /\ Scanning
    /\ stage = "query"
    /\ \E o \in QueryChoices(conns[server], ws[cursor].name \in conns[server].told,
                             oracle[Method][cursor], OutcomeTable[<<ws, symbol>>]) :
          LET f == ws[cursor]
              pos == PosTable[<<ws, symbol>>][cursor]
              c == conns[server]
              a == Answer(Response(c, o))
              p == IF pos # NoPos /\ Truthy(a) THEN process_locations(a, symbol)
                   ELSE [raised |-> FALSE, results |-> <<>>]
              excluded == IF op = "goto_references" THEN definition_locations ELSE {}
              add == AddUnique(results, seen_locations, excluded, p.results)
              defpass == op = "goto_references" /\ pass = 1
          IN  /\ (pos = NoPos) => (o = Timeout)
              /\ conns' = IF pos = NoPos THEN conns
                          ELSE [conns EXCEPT ![server] = SendRequest(c, o)]
              /\ definition_locations' =
                    IF defpass /\ ~p.raised
                    THEN definition_locations \cup Keys(p.results)
                    ELSE definition_locations
              /\ results' = IF p.raised THEN AfterException(results)
                            ELSE IF defpass THEN results ELSE add.results
              /\ seen_locations' = IF defpass \/ p.raised THEN seen_locations
                                   ELSE add.seen
              /\ events' = events \cup QueryTags(pos, c, o, p, excluded, add, defpass)
                                  \cup (IF pos = NoPos THEN {}
                                        ELSE OracleTags(c, o, oracle[Method][cursor]))
              /\ pass' = Moved(p.raised).pass
              /\ cursor' = Moved(p.raised).cursor
    /\ stage' = "get_server"
    /\ lastCall' = NoCall
    /\ UNCHANGED <<reader, wire, mode, oracle, ws, symbol, servers, open_documents, op, server, ret, runs, hist,
                   lastOp, scanned>>

\* one iteration of the loop of LspService.find_symbol over the extensions
FindSymbolGroup ==
    /\ op = "find_symbol"
    /\ cursor <= Len(Exts)
    /\ LET ext == Exts[cursor]
           files == GroupOf(ws, ext)
       IN  IF files = {}
           THEN /\ cursor' = cursor + 1
                /\ lastCall' = NoCall
                /\ UNCHANGED <<conns, servers, op, results, ret, lastOp, events, scanned>>
           ELSE /\ CanCall(conns, servers, ext)
                /\ \E so \in StartChoices(conns, servers, ext) :
                      LET g == get_server_for_file(conns, servers, ext, so)
                          srv == g.server
                          written == srv # 0 /\ is_running(g.conns[srv])
                      IN  /\ servers' = g.servers
                          /\ lastCall' = g.call
                          /\ scanned' = scanned \cup {<<IF written THEN 1 ELSE 0, cursor>>}
                          /\ IF srv = 0
                             THEN /\ conns' = g.conns
                                  /\ cursor' = cursor + 1
                                  /\ events' = events \cup {"failure"} \cup NoServerTags
                                  /\ UNCHANGED <<op, results, ret, lastOp>>
                             ELSE \E o \in QueryChoices(g.conns[srv], TRUE, oracle.symbol,
                                                          SymOutcomeTable[<<ws, symbol>>]) :
                                     LET a == Answer(Response(g.conns[srv], o))
                                         p == IF Truthy(a)
                                              THEN process_workspace_symbols(a.items, symbol)
                                              ELSE [raised |-> FALSE, results |-> <<>>]
                                     IN  /\ conns' = [g.conns EXCEPT ![srv] = SendRequest(@, o)]
                                         /\ events' = events
                                                \cup (IF p.raised THEN {"failure"} ELSE {})
                                                \cup OracleTags(g.conns[srv], o, oracle.symbol)
                                         /\ IF p.raised
                                            THEN /\ op' = "idle"
                                                 /\ ret' = Escaped("KeyError")
                                                 /\ lastOp' = "find_symbol"
                                                 /\ cursor' = 1
                                                 /\ results' = <<>>
                                            ELSE /\ results' = results \o p.results
                                                 /\ cursor' = cursor + 1
                                                 /\ UNCHANGED <<op, ret, lastOp>>
    /\ UNCHANGED <<reader, wire, mode, oracle, ws, symbol, open_documents, pass, stage, server, seen_locations,
                   definition_locations, runs, hist>>

\* the loops are over
LoopsDone ==
    \/ op \in {"goto_definition", "goto_references"} /\ cursor > Len(ws)
    \/ op = "find_symbol" /\ cursor > Len(Exts)

\* the return statement of the operation
Return ==
    /\ LoopsDone
    /\ ret' = ReturnValue(op, symbol, results)
    /\ hist' = [hist EXCEPT ![op] = [first |-> IF @.n = 0 THEN ret' ELSE @.first,
                                     n |-> @.n + 1]]
    /\ lastOp' = op
    /\ op' = "idle"
    /\ lastCall' = NoCall
    /\ pass' = 1
    /\ cursor' = 1
    /\ stage' = "get_server"
    /\ server' = 0
    /\ seen_locations' = {}
    /\ UNCHANGED <<reader, wire, mode, oracle, ws, symbol, conns, servers, open_documents, results,
                   definition_locations, runs, scanned, events>>

\* the operating-system process of connection i exits (poll() is not None)
ProcessExit(i) ==
    /\ conns[i].alive
    /\ conns' = [conns EXCEPT ![i].alive = FALSE]
    /\ lastCall' = NoCall
    /\ UNCHANGED <<reader, wire, mode, oracle, ws, symbol, servers, open_documents, op, pass, cursor, stage,
                   server, results, seen_locations, definition_locations, ret, runs,
                   hist, lastOp, scanned, events>>

\* LanguageServer.shutdown: nothing without a handle; else shutdown request,
\* exit notification, terminate if still alive, handle dropped.  piped = the
\* first write hit a broken pipe (the handle is dropped there, the later
\* self.process.poll() raises and is_initialized is left as it was).
ShutdownConn(c, piped) ==
    IF ~c.process THEN c
    ELSE IF is_running(c) /\ piped
    THEN [c EXCEPT !.process = FALSE, !.alive = FALSE]
    ELSE [c EXCEPT !.process = FALSE, !.alive = FALSE, !.is_initialized = FALSE]

Registered == {servers[e] : e \in ExtSet} \ {0}

\* LspService.shutdown: every registered connection is shut down
Shutdown ==
    /\ op = "idle"
    /\ \E i \in Registered : conns[i].process
    /\ \E piped \in Pipes :
          conns' = [i \in 1..Len(conns) |->
                       IF i \in Registered THEN ShutdownConn(conns[i], piped)
                       ELSE conns[i]]
    /\ lastCall' = NoCall
    /\ UNCHANGED <<reader, wire, mode, oracle, ws, symbol, servers, open_documents, op, pass, cursor, stage,
                   server, results, seen_locations, definition_locations, ret, runs,
                   hist, lastOp, scanned, events>>

Next ==
    \/ \E o \in Ops : Start(o)
    \/ ScanGetServer
    \/ ScanOpen
    \/ ScanQuery
    \/ FindSymbolGroup
    \/ Return
    \/ \E i \in 1..Len(conns) : ProcessExit(i)
    \/ Shutdown

Spec == Init /\ [][Next]_vars

SpecOracle == InitOracle /\ [][Next]_vars

(***************************************************************************)
(* The request-level model: a caller sends MaxReqs requests, one after the *)
(* other, on one connection.                                               *)
(***************************************************************************)
InitWire ==
    /\ mode = "wire"
    /\ oracle = NoOracle
    /\ ws = WsScenario
    /\ symbol = SymGo
    /\ InitRest

\* _send_request up to the write: None at once when not running, else the
\* counter is incremented and the request written (piped: the write hit a
\* broken pipe and the handle is dropped; the wait starts all the same)
WireSend ==
    /\ wire.pc = "idle"
    /\ wire.done < MaxReqs
    /\ IF ~wire.up
       THEN wire' = [wire EXCEPT !.ret = NoMsg, !.done = @ + 1]
       ELSE \E piped \in BOOLEAN :
               wire' = [wire EXCEPT !.request_id = @ + 1, !.up = ~piped,
                                    !.pc = "poll", !.ticks = 0,
                                    !.sent = IF piped THEN @
                                             ELSE Append(@, [method |-> "request",
                                                             id |-> wire.request_id + 1])]
    /\ UNCHANGED <<poolvars, reader>>

\* variant: the outer while has no time limit
WirePollNoLimit ==
    /\ wire.pc = "poll"
    /\ wire' = [wire EXCEPT !.pc = "drain", !.responses = <<>>]
    /\ UNCHANGED <<poolvars, reader>>

\* the test of the outer while: None once the wait has elapsed
WirePoll ==
    /\ wire.pc = "poll"
    /\ IF Elapsed(wire.ticks)
       THEN wire' = [wire EXCEPT !.pc = "idle", !.ret = NoMsg, !.done = @ + 1,
                                 !.closed = @ \cup {wire.request_id}]
       ELSE wire' = [wire EXCEPT !.pc = "drain", !.responses = <<>>]
    /\ UNCHANGED <<poolvars, reader>>

\* one round of the inner while: the loop ends on an empty queue, a matching
\* message is returned at once, any other is appended to responses
WireDrain ==
    /\ wire.pc = "drain"
    /\ IF wire.queue = <<>>
       THEN wire' = [wire EXCEPT !.pc = "putback"]
       ELSE LET m == Head(wire.queue)
            IN  IF Matches(m, wire.request_id)
                THEN wire' = [wire EXCEPT !.queue = Tail(@), !.pc = "idle", !.ret = m,
                                          !.done = @ + 1, !.returned = @ \cup {m},
                                          !.closed = @ \cup {wire.request_id}]
                ELSE wire' = [wire EXCEPT !.queue = Tail(@),
                                          !.responses = Append(@, m)]
    /\ UNCHANGED <<poolvars, reader>>

\* for response in responses: self.response_queue.put(response)
WirePutBack ==
    /\ wire.pc = "putback"
    /\ IF wire.responses = <<>>
       THEN wire' = [wire EXCEPT !.pc = "sleep"]
       ELSE wire' = [wire EXCEPT !.queue = Append(@, Head(wire.responses)),
                                 !.responses = Tail(@)]
    /\ UNCHANGED <<poolvars, reader>>

\* time.sleep(0.1); the sleeps are counted until the wait has elapsed
WireSleep ==
    /\ wire.pc = "sleep"
    /\ wire' = [wire EXCEPT !.pc = "poll",
                            !.ticks = IF Elapsed(@) THEN @ ELSE @ + 1]
    /\ UNCHANGED <<poolvars, reader>>

\* the kinds of message with id i the server may write: a notification
\* without id, a request of its own with any id, and the one response to a
\* request that was written to it
ServerKinds(w, i) ==
    IF i = 0 THEN {"notification"}
    ELSE {"request"}
         \cup (IF /\ \E k \in 1..Len(w.sent) : w.sent[k].id = i
                  /\ \A m \in w.delivered : ~(m.kind = "result" /\ m.id = i)
               THEN {"result"} ELSE {})

\* the thread of _read_responses puts the next message of the server, with
\* id i, into the queue
WireDeliver(i) ==
    /\ wire.up
    /\ wire.serial < MaxMsgs
    /\ \E kind \in ServerKinds(wire, i) :
          LET m == [n |-> wire.serial + 1, id |-> i, kind |-> kind,
                    intime |-> /\ kind = "result"
                               /\ i = wire.request_id
                               /\ wire.pc # "idle"
                               /\ ~Elapsed(wire.ticks)]
          IN  wire' = [wire EXCEPT !.serial = m.n, !.queue = Append(@, m),
                                   !.delivered = @ \cup {m}]
    /\ UNCHANGED <<poolvars, reader>>

\* the process exits
WireExit ==
    /\ wire.up
    /\ wire' = [wire EXCEPT !.up = FALSE]
    /\ UNCHANGED <<poolvars, reader>>

\* the steps of the thread that calls _send_request
WireCaller == WireSend \/ WirePoll \/ WireDrain \/ WirePutBack \/ WireSleep

NextWire ==
    \/ WireSend
    \/ WirePoll
    \/ WireDrain
    \/ WirePutBack
    \/ WireSleep
    \/ \E i \in 0..MaxReqs : WireDeliver(i)
    \/ WireExit

\* the calling thread keeps running
SpecWire == InitWire /\ [][NextWire]_vars /\ WF_vars(WireCaller)

(***************************************************************************)
(* The life of one connection at the level of its messages: start() with   *)
(* initialize(), then, once registered in the pool, the didOpen            *)
(* notifications and the queries of the public operations.  The wait of a  *)
(* request is that of the request-level model above.                       *)
(***************************************************************************)
InitStart ==
    /\ mode = "start"
    /\ oracle = NoOracle
    /\ ws = WsScenario
    /\ symbol = SymGo
    /\ InitRest

\* variant: the counter is not incremented
ConnRequestSameId ==
    /\ wire.pc = "idle"
    /\ wire.phase \in {"new", "ready"}
    /\ wire.done < MaxReqs
    /\ IF ~wire.up
       THEN wire' = [wire EXCEPT !.ret = NoMsg, !.done = @ + 1,
                                 !.phase = IF @ = "new" THEN "handshake" ELSE @]
       ELSE \E piped \in BOOLEAN :
               wire' = [wire EXCEPT !.up = ~piped,
                                    !.pc = "poll", !.ticks = 0,
                                    !.phase = IF @ = "new" THEN "handshake" ELSE @,
                                    !.sent = IF piped THEN @
                                             ELSE Append(@, [method |-> IF wire.phase = "new"
                                                                        THEN "initialize"
                                                                        ELSE "query",
                                                             id |-> wire.request_id])]
    /\ UNCHANGED <<poolvars, reader>>

\* variant: a second caller sends while the first one sleeps in its wait
ConnRequestConcurrent ==
    /\ wire.pc \in {"idle", "sleep"}
    /\ wire.phase \in {"new", "ready"}
    /\ wire.done < MaxReqs
    /\ wire.up
    /\ wire.request_id <= MaxReqs
    /\ wire' = [wire EXCEPT !.request_id = @ + 1,
                            !.pc = "poll", !.ticks = 0,
                            !.phase = IF @ = "new" THEN "handshake" ELSE @,
                            !.sent = Append(@, [method |-> IF wire.phase = "new"
                                                           THEN "initialize" ELSE "query",
                                                id |-> wire.request_id + 1])]
    /\ UNCHANGED <<poolvars, reader>>

\* _send_request up to the write, for the initialize request of a new
\* connection and for a query on a registered one
ConnRequest ==
    /\ wire.pc = "idle"
    /\ wire.phase \in {"new", "ready"}
    /\ wire.done < MaxReqs
    /\ IF ~wire.up
       THEN wire' = [wire EXCEPT !.ret = NoMsg, !.done = @ + 1,
                                 !.phase = IF @ = "new" THEN "handshake" ELSE @]
       ELSE \E piped \in BOOLEAN :
               wire' = [wire EXCEPT !.request_id = @ + 1, !.up = ~piped,
                                    !.pc = "poll", !.ticks = 0,
                                    !.phase = IF @ = "new" THEN "handshake" ELSE @,
                                    !.sent = IF piped THEN @
                                             ELSE Append(@, [method |-> IF wire.phase = "new"
                                                                        THEN "initialize"
                                                                        ELSE "query",
                                                             id |-> wire.request_id + 1])]
    /\ UNCHANGED <<poolvars, reader>>

\* _send_notification on a connection that is running: the message has no
\* id; piped = the write hit a broken pipe and the handle is dropped
Notified(w, method, piped) ==
    [w EXCEPT !.up = ~piped,
              !.sent = IF piped THEN @ ELSE Append(@, [method |-> method, id |-> 0])]

\* variant: the response is not looked at
ConnInitializedUnchecked ==
    /\ wire.pc = "idle"
    /\ wire.phase = "handshake"
    /\ \E piped \in BOOLEAN :
          wire' = [(IF wire.up THEN Notified(wire, "initialized", piped) ELSE wire)
                      EXCEPT !.phase = "ready"]
    /\ UNCHANGED <<poolvars, reader>>

\* initialize() after its request returned: without a response that has a
\* result key start() fails and the connection is dropped; else the
\* initialized notification, and the connection is registered
ConnInitialized ==
    /\ wire.pc = "idle"
    /\ wire.phase = "handshake"
    /\ IF wire.ret.kind # "result"
       THEN wire' = [wire EXCEPT !.phase = "failed"]
       ELSE \E piped \in BOOLEAN :
               wire' = [(IF wire.up THEN Notified(wire, "initialized", piped) ELSE wire)
                           EXCEPT !.phase = "ready"]
    /\ UNCHANGED <<poolvars, reader>>

\* LanguageServer.open_document on the registered connection
ConnOpen ==
    /\ wire.pc = "idle"
    /\ wire.phase = "ready"
    /\ wire.up
    /\ Cardinality({k \in 1..Len(wire.sent) : wire.sent[k].method = "didOpen"}) < MaxOpens
    /\ \E piped \in BOOLEAN : wire' = Notified(wire, "didOpen", piped)
    /\ UNCHANGED <<poolvars, reader>>

NextStart ==
    \/ ConnRequest
    \/ ConnInitialized
    \/ ConnOpen
    \/ WirePoll
    \/ WireDrain
    \/ WirePutBack
    \/ WireSleep
    \/ \E i \in 0..MaxReqs : WireDeliver(i)
    \/ WireExit

SpecStart == InitStart /\ [][NextStart]_vars

(***************************************************************************)
(* get_symbol_context on a service whose pool is empty, or holds one       *)
(* connection for the extension of the file, with or without the file      *)
(* opened.                                                                 *)
(***************************************************************************)
\* the pool after the first get_server_for_file(".py") succeeded, as a
\* goto operation calls it, before (docs = {}) and after open_document
ContextPool(docs) ==
    LET g == get_server_for_file(<<>>, [e \in ExtSet |-> 0], ".py", "ok")
    IN  [conns |-> IF docs = {} THEN g.conns
                   ELSE [g.conns EXCEPT ![1] = SendNotification(@, "m.py", FALSE)],
         servers |-> g.servers,
         open_documents |-> docs]

ContextPools ==
    {[conns |-> <<>>, servers |-> [e \in ExtSet |-> 0], open_documents |-> {}],
     ContextPool({}), ContextPool({"m.py"})}

InitContext ==
    /\ mode = "context"
    /\ oracle = NoOracle
    /\ symbol = SymGo
    /\ \E f \in ContextFiles : ws = <<f>>
    /\ \E p \in ContextPools :
          /\ conns = p.conns
          /\ servers = p.servers
          /\ open_documents = p.open_documents
    /\ op = "idle"
    /\ pass = 1
    /\ cursor = 1
    /\ stage = "get_server"
    /\ server = 0
    /\ results = <<>>
    /\ seen_locations = {}
    /\ definition_locations = {}
    /\ ret = NoRet
    /\ runs = 0
    /\ hist = [o \in Ops |-> [first |-> NoRet, n |-> 0]]
    /\ lastOp = "idle"
    /\ lastCall = NoCall
    /\ scanned = {}
    /\ events = {}
    /\ wire = WireInit
    /\ reader = ReaderInit(<<>>)

\* variant: the file is opened on the pool's connection first, as the goto
\* operations do
GetContextOpening(line) ==
    /\ op = "idle"
    /\ ret' = get_symbol_context(ws[1], line)
    /\ lastOp' = "get_symbol_context"
    /\ lastCall' = NoCall
    /\ open_documents' = open_documents \cup {ws[1].name}
    /\ UNCHANGED <<reader, wire, mode, oracle, ws, symbol, conns, servers, op, pass,
                   cursor, stage, server, results, seen_locations, definition_locations,
                   runs, hist, scanned, events>>

\* CodeBrowserAPI.get_symbol_context(file_path, line) on the file of ws
GetContext(line) ==
    /\ op = "idle"
    /\ ret' = get_symbol_context(ws[1], line)
    /\ lastOp' = "get_symbol_context"
    /\ lastCall' = NoCall
    /\ UNCHANGED <<reader, wire, mode, oracle, ws, symbol, conns, servers, open_documents, op, pass,
                   cursor, stage, server, results, seen_locations, definition_locations,
                   runs, hist, scanned, events>>

NextContext ==
    \/ \E line \in LineArgs : GetContext(line)
    \/ \E i \in 1..Len(conns) : ProcessExit(i)

SpecContext == InitContext /\ [][NextContext]_vars

(***************************************************************************)
(* find_symbol_position on the files made of up to MaxLocateLines of the   *)
(* lines "def go", "class go", "x = go", "gogo", "def gogo", "f" and       *)
(* "def f".                                                                *)
(***************************************************************************)
LocateTexts ==
    UNION {[1..n -> {<<"d", "e", "f", " ", "g", "o">>,
                     <<"c", "l", "a", "s", "s", " ", "g", "o">>,
                     <<"x", " ", "=", " ", "g", "o">>,
                     <<"g", "o", "g", "o">>,
                     <<"d", "e", "f", " ", "g", "o", "g", "o">>,
                     <<"f">>,
                     <<"d", "e", "f", " ", "f">>}] : n \in 0..MaxLocateLines}

InitLocate ==
    /\ mode = "locate"
    /\ oracle = NoOracle
    /\ symbol \in {SymGo, SymF}
    /\ \E f \in {File("m.py", ".py", TRUE, t) : t \in LocateTexts}
               \cup {File("m.py", ".py", FALSE, <<>>)} : ws = <<f>>
    /\ InitRest

\* server.find_symbol_position(file_path, symbol_name) on the file of ws
Locate ==
    /\ op = "idle"
    /\ ret' = LocateIn(ws[1], symbol)
    /\ lastOp' = "find_symbol_position"
    /\ lastCall' = NoCall
    /\ UNCHANGED <<reader, wire, mode, oracle, ws, symbol, conns, servers, open_documents, op, pass,
                   cursor, stage, server, results, seen_locations, definition_locations,
                   runs, hist, scanned, events>>

SpecLocate == InitLocate /\ [][Locate]_vars

(***************************************************************************)
(* LspService._index_workspace.  A path is the tuple of its components     *)
(* below the root, a component a tuple of characters.  In this model ws    *)
(* is the directory tree: the root's name, whether the root can be listed, *)
(* and the paths of the files beneath it.                                  *)
(***************************************************************************)
\* the trees: a root that cannot be listed (it does not exist or may not be
\* read), or any set of the files a.py, .git/h.py, __pycache__/c.py,
\* .github/g.py, x.git.py, s/b.py and n.c
IndexTrees ==
    {[root |-> <<"w">>, listable |-> FALSE, files |-> {}]}
    \cup {[root |-> <<"w">>, listable |-> TRUE, files |-> fs] :
            fs \in SUBSET {<<<<"a", ".", "p", "y">>>>,
                           <<<<".", "g", "i", "t">>, <<"h", ".", "p", "y">>>>,
                           <<<<"_", "_", "p", "y", "c", "a", "c", "h", "e", "_", "_">>,
                             <<"c", ".", "p", "y">>>>,
                           <<<<".", "g", "i", "t", "h", "u", "b">>, <<"g", ".", "p", "y">>>>,
                           <<<<"x", ".", "g", "i", "t", ".", "p", "y">>>>,
                           <<<<"s">>, <<"b", ".", "p", "y">>>>,
                           <<<<"n", ".", "c">>>>}}

\* the characters of an extension
ExtText(e) ==
    CASE e = ".py" -> <<".", "p", "y">>
      [] e = ".c" -> <<".", "c">>
      [] e = ".js" -> <<".", "j", "s">>

RECURSIVE PathStr(_)
\* str(file_path): the components, each after a "/"
PathStr(comps) ==
    IF comps = <<>> THEN <<>> ELSE <<"/">> \o Head(comps) \o PathStr(Tail(comps))

\* the loop of _index_workspace: per extension the paths glob yields (none
\* under a root that cannot be listed) whose string holds neither ".git"
\* nor "__pycache__"
index_workspace(tree) ==
    [e \in ExtSet |->
        {f \in tree.files :
            /\ tree.listable
            /\ LiteralAt(f[Len(f)], ExtText(e), Len(f[Len(f)]) - Len(ExtText(e)) + 1)
            /\ StrFind(PathStr(tree.root \o f), <<".", "g", "i", "t">>) = -1
            /\ StrFind(PathStr(tree.root \o f),
                       <<"_", "_", "p", "y", "c", "a", "c", "h", "e", "_", "_">>) = -1}]

InitIndex ==
    /\ mode = "index"
    /\ oracle = NoOracle
    /\ symbol = SymGo
    /\ ws \in IndexTrees
    /\ InitRest

\* LspService.__init__: self.file_index = self._index_workspace()
BuildIndex ==
    /\ op = "idle"
    /\ ret' = index_workspace(ws)
    /\ lastOp' = "index_workspace"
    /\ lastCall' = NoCall
    /\ UNCHANGED <<reader, wire, mode, oracle, ws, symbol, conns, servers, open_documents, op, pass,
                   cursor, stage, server, results, seen_locations, definition_locations,
                   runs, hist, scanned, events>>

SpecIndex == InitIndex /\ [][BuildIndex]_vars

(***************************************************************************)
(* The byte-level model: a server writes up to MaxFrames frames, a byte at *)
(* a time, and the thread of _read_responses reads them.                   *)
(***************************************************************************)
InitReader ==
    /\ mode = "reader"
    /\ oracle = NoOracle
    /\ ws = WsScenario
    /\ symbol = SymGo
    /\ InitRest

\* the server writes its next byte (a write of several bytes is several of
\* these steps with no read in between)
ServerWrite ==
    /\ reader.alive
    /\ reader.out # <<>>
    /\ reader' = [reader EXCEPT !.out = Tail(@), !.pipe = Append(@, Head(reader.out))]
    /\ UNCHANGED <<poolvars, wire>>

\* the process ends, or shutdown() drops it: is_running() is false from now on
ReaderExit ==
    /\ reader.alive
    /\ reader' = [reader EXCEPT !.alive = FALSE]
    /\ UNCHANGED <<poolvars, wire>>

\* while self.is_running(): header = b""; content_length = None
ReadTop ==
    /\ reader.pc = "top"
    /\ reader' = [reader EXCEPT !.pc = IF reader.alive THEN "header" ELSE "stopped",
                                !.header = <<>>, !.content_length = -1]
    /\ UNCHANGED <<poolvars, wire>>

\* one turn of the inner loop: process.stdout.read(1) blocks for a byte and
\* returns b"" at the end of the output; after a blank line the length is
\* parsed, and without a length the outer loop starts over
ReadHeader ==
    /\ reader.pc = "header"
    /\ IF reader.pipe = <<>>
       THEN /\ ~reader.alive
            /\ reader' = [reader EXCEPT !.pc = "top"]
       ELSE LET header == Append(reader.header, Head(reader.pipe))
                n == Len(header)
                ended == n >= 4 /\ SubSeq(header, n - 3, n) = <<"\r", "\n", "\r", "\n">>
                content_length == IF ended THEN ContentLength(header) ELSE -1
            IN  reader' = [reader EXCEPT
                    !.pipe = Tail(@),
                    !.header = header,
                    !.content_length = content_length,
                    !.pc = IF ~ended THEN "header"
                           ELSE IF content_length = -2 THEN "dead"
                           ELSE IF content_length \in {-1, 0} THEN "top"
                           ELSE "content"]
    /\ UNCHANGED <<poolvars, wire>>

\* the read of one byte less than the header asked for stands for a read
\* that takes the length to include the byte that ends the header
ReadContentShort ==
    /\ reader.pc = "content"
    /\ Len(reader.pipe) >= reader.content_length - 1
    /\ LET content == SubSeq(reader.pipe, 1, reader.content_length - 1)
       IN  reader' = [reader EXCEPT
               !.pipe = SubSeq(@, reader.content_length, Len(@)),
               !.queue = IF content \in {f.content : f \in ServerFrames} \ {<<>>}
                         THEN Append(@, content) ELSE @,
               !.pc = "top"]
    /\ UNCHANGED <<poolvars, wire>>

\* content = self.process.stdout.read(content_length) on the buffered pipe:
\* blocks until that many bytes are there, or returns what is left at the
\* end of the output; json.loads of the content and response_queue.put, a
\* content that is not JSON being logged and dropped (the JSON texts of the
\* model are the contents of the well-framed frames)
ReadContent ==
    /\ reader.pc = "content"
    /\ Len(reader.pipe) >= reader.content_length \/ ~reader.alive
    /\ LET k == IF Len(reader.pipe) >= reader.content_length
                THEN reader.content_length ELSE Len(reader.pipe)
           content == SubSeq(reader.pipe, 1, k)
       IN  reader' = [reader EXCEPT
               !.pipe = SubSeq(@, k + 1, Len(@)),
               !.queue = IF content \in {f.content : f \in ServerFrames} \ {<<>>}
                         THEN Append(@, content) ELSE @,
               !.pc = "top"]
    /\ UNCHANGED <<poolvars, wire>>

NextReader ==
    \/ ServerWrite
    \/ ReaderExit
    \/ ReadTop
    \/ ReadHeader
    \/ ReadContent

SpecReader == InitReader /\ [][NextReader]_vars

(***************************************************************************)
(* The outbound side: _send_message frames one message.  A character is    *)
(* its code point, a byte a number below 256.  In this model symbol is the *)
(* text the message carries (a path, a symbol name or the text of a file); *)
(* the keys and the punctuation around it are ASCII.                       *)
(***************************************************************************)
\* json.dumps with ensure_ascii=False would write the characters as they are
dumpsRaw(text) == <<34>> \o text \o <<34>>

\* json.dumps(message) of a string (ensure_ascii is True by default): quote
\* and backslash are escaped, the control characters and everything outside
\* ' '..'~' become \n, \r, \t, \b, \f or \uxxxx (lower-case hexadecimal), a
\* character above 0xFFFF a surrogate pair of two \uxxxx
dumps(text) ==
    LET hex(d) == IF d < 10 THEN 48 + d ELSE 87 + d
        u(n) == <<92, 117, hex(n \div 4096), hex((n \div 256) % 16),
                  hex((n \div 16) % 16), hex(n % 16)>>
        esc(c) == CASE c = 34 -> <<92, 34>>
                    [] c = 92 -> <<92, 92>>
                    [] c = 10 -> <<92, 110>>
                    [] c = 13 -> <<92, 114>>
                    [] c = 9 -> <<92, 116>>
                    [] c = 8 -> <<92, 98>>
                    [] c = 12 -> <<92, 102>>
                    [] c \notin {8, 9, 10, 12, 13, 34, 92} /\ c >= 32 /\ c <= 126 -> <<c>>
                    [] c \notin {8, 9, 10, 12, 13} /\ (c < 32 \/ c > 126) /\ c < 65536 -> u(c)
                    [] c >= 65536 -> u(55296 + ((c - 65536) \div 1024))
                                         \o u(56320 + ((c - 65536) % 1024))
        RECURSIVE all(_)
        all(t) == IF t = <<>> THEN <<>> ELSE esc(Head(t)) \o all(Tail(t))
    IN  <<34>> \o all(text) \o <<34>>

\* str.encode('utf-8'): one to four bytes a character
encode(chars) ==
    LET utf8(c) == IF c < 128 THEN <<c>>
                   ELSE IF c < 2048 THEN <<192 + (c \div 64), 128 + (c % 64)>>
                   ELSE IF c < 65536
                   THEN <<224 + (c \div 4096), 128 + ((c \div 64) % 64), 128 + (c % 64)>>
                   ELSE <<240 + (c \div 262144), 128 + ((c \div 4096) % 64),
                          128 + ((c \div 64) % 64), 128 + (c % 64)>>
        RECURSIVE all(_)
        all(t) == IF t = <<>> THEN <<>> ELSE utf8(Head(t)) \o all(Tail(t))
    IN  all(chars)

\* the texts: a, the quote, the backslash, the newline, DEL, e with acute
\* accent (two bytes in UTF-8), the euro sign (three) and U+1F600 (four)
InitSend ==
    /\ mode = "send"
    /\ oracle = NoOracle
    /\ ws = WsScenario
    /\ symbol \in UNION {[1..n -> {97, 34, 92, 10, 127, 233, 8364, 128512}] : n \in 0..MaxChars}
    /\ InitRest

\* _send_message on a running connection: content = json.dumps(message),
\* the header with len(content), then content.encode('utf-8'); ret is what
\* was written: the number of the header and the bytes after it
SendMessage ==
    /\ op = "idle"
    /\ lastOp = "idle"
    /\ LET content == dumps(symbol)
       IN  ret' = [length |-> Len(content), body |-> encode(content)]
    /\ lastOp' = "_send_message"
    /\ lastCall' = NoCall
    /\ UNCHANGED <<reader, wire, mode, oracle, ws, symbol, conns, servers, open_documents, op, pass,
                   cursor, stage, server, results, seen_locations, definition_locations,
                   runs, hist, scanned, events>>

SpecSend == InitSend /\ [][SendMessage]_vars

(***************************************************************************)
(* Properties of the aggregating operations.                               *)
(***************************************************************************)
ScanOps == {"goto_definition", "goto_references"}

\* the operation o has returned and nothing was started since
Returned(o) == op = "idle" /\ lastOp = o /\ "exception" \notin DOMAIN ret

NoDuplicates(rs) ==
    \A i, j \in 1..Len(rs) : i # j => Key(rs[i]) # Key(rs[j])

\* C2: the list goto_definition / goto_references builds and returns never
\* holds two entries with the same (file, line, column)
C2Thm ==
    /\ op \in ScanOps => NoDuplicates(results)
    /\ \A o \in ScanOps :
          (Returned(o) /\ "results" \in DOMAIN ret) => NoDuplicates(ret.results)

\* a location offered more than once was returned, once, with another one
C2Witness ==
    /\ Returned("goto_references")
    /\ "duplicate" \in events
    /\ "results" \in DOMAIN ret
    /\ Len(ret.results) >= 2

\* the files with a line on which the symbol follows a declaration keyword
DeclFiles(w, sym) ==
    {i \in 1..Len(w) : \E n \in 1..Len(w[i].text) :
        KeywordMatch(w[i].text[n], KwDef, sym) \/ KeywordMatch(w[i].text[n], KwClass, sym)}

\* the files in which the symbol occurs as a whole word
UseFiles(w, sym) ==
    {i \in 1..Len(w) : \E n \in 1..Len(w[i].text) : WordMatches(w[i].text[n], sym) # {}}

\* the symbol is declared in exactly one file, which is readable, at one
\* place, and used in another file
DeclaredOnce(w, sym) ==
    /\ Cardinality(DeclFiles(w, sym)) = 1
    /\ Cardinality(DeclLocs(w, sym)) = 1
    /\ \A i \in 1..Len(w) : w[i].readable
    /\ UseFiles(w, sym) \ DeclFiles(w, sym) # {}

DeclaredOnceTable == [in \in Inputs |-> DeclaredOnce(in[1], in[2])]

\* C3: when the symbol is declared in exactly one file and used elsewhere,
\* and the server resolved every occurrence of the symbol it was asked about
\* to that declaration, goto_definition returns exactly one location, on the
\* declaration's line
C3Claim ==
    (/\ Returned("goto_definition")
     /\ DeclaredOnceTable[<<ws, symbol>>]
     /\ "unfaithful" \notin events)
        => /\ "results" \in DOMAIN ret
           /\ Len(ret.results) = 1
           /\ \A d \in DeclTable[<<ws, symbol>>] :
                 ret.results[1].file = d.file /\ ret.results[1].line = d.line + 1

\* every <<pass, file>> body of operation o
AllBodies(o) ==
    (IF o = "goto_references" THEN {1, 2} ELSE {1}) \X (1..Len(ws))

IsPrefix(a, b) == Len(a) <= Len(b) /\ SubSeq(b, 1, Len(a)) = a

C5Step ==
    /\ (op \in ScanOps /\ op' = op) => IsPrefix(results, results')
    /\ (op \in ScanOps /\ op' = "idle")
          => /\ scanned = AllBodies(op)
             /\ ret' = ReturnValue(op, symbol, results)

\* C5: whatever fails on a file (no server, unreadable file, malformed
\* response, exception), no step of the scan drops a location gathered
\* before, the operation returns only after the body of every file was
\* entered in every pass, and it returns the locations gathered
C5Thm == [][C5Step]_vars

\* the first file failed and the second one's locations were returned
C5Witness ==
    /\ Returned("goto_definition")
    /\ ws = WsMixed
    /\ "failure" \in events
    /\ "results" \in DOMAIN ret

\* C6: no public operation lets an exception escape to its caller
C6Claim == "exception" \notin DOMAIN ret

\* C7: a returned value has exactly one of the keys results and error:
\* results, with the list gathered, when that list is not empty, otherwise
\* error with a message naming the symbol
C7Thm ==
    \A o \in Ops :
        Returned(o) =>
            IF results # <<>>
            THEN DOMAIN ret = {"results"} /\ ret.results = results
            ELSE DOMAIN ret = {"error"} /\ ret.error = <<ErrorText(o), symbol>>

\* references came in, every one of them was a definition's: error is returned
C7Witness ==
    /\ Returned("goto_references")
    /\ "excluded" \in events
    /\ DOMAIN ret = {"error"}

\* the keys of the locations a return value holds
RetKeys(r) == IF "results" \in DOMAIN r THEN Keys(r.results) ELSE {}

\* goto_definition and goto_references have both returned
BothRan == hist["goto_definition"].n > 0 /\ hist["goto_references"].n > 0

\* what the first goto_definition and the first goto_references returned
\* have no location in common
Disjoint ==
    RetKeys(hist["goto_definition"].first) \cap RetKeys(hist["goto_references"].first) = {}

ReturnedTwice(o) == Returned(o) /\ hist[o].n = 2

\* C4: two runs of one query of which one met a timeout where the other
\* met (or would have met) an answer with zero locations, and which lost no
\* other answer, return the same value
C4Thm ==
    \A o \in Ops :
        (/\ ReturnedTwice(o)
         /\ events \cap {"subst1", "subst2"} # {}
         /\ events \cap {"lost", "declined"} = {})
            => ret = hist[o].first

\* the second run met a timeout, the first did not, and locations were returned
C4Witness ==
    /\ ReturnedTwice("goto_references")
    /\ "subst2" \in events
    /\ "subst1" \notin events
    /\ events \cap {"lost", "declined"} = {}
    /\ "results" \in DOMAIN ret

\* C8: the second run of a query returns what the first run returned, when
\* every request of both runs that had locations to report was answered
C8Claim ==
    \A o \in Ops :
        (ReturnedTwice(o) /\ "lost" \notin events) => ret = hist[o].first

C9Step ==
    lastCall' # NoCall =>
        LET e == lastCall'.ext
            s == lastCall'.server
        IN  /\ (s # 0 /\ s <= Len(conns)) => is_running(conns[s])
            /\ (servers[e] # 0 /\ ~is_running(conns[servers[e]]))
                  => /\ Len(conns') = Len(conns) + 1
                     /\ conns'[Len(conns')].ext = e
                     /\ IF s # 0 THEN s = Len(conns') /\ servers'[e] = s
                        ELSE servers'[e] = servers[e]

\* C9, amended: get_server_for_file never returns a connection that existed
\* before the call and is not running; when the registered connection is not
\* running it makes and starts a new one, which it returns and registers in
\* place of the dead one when the start succeeds, and otherwise returns
\* nothing and leaves the entry as it was
C9Thm == [][C9Step]_vars

C9StepAsStated ==
    lastCall' # NoCall =>
        LET e == lastCall'.ext
            s == lastCall'.server
        IN  /\ (s # 0 /\ s <= Len(conns)) => is_running(conns[s])
            /\ (servers[e] # 0 /\ ~is_running(conns[servers[e]]))
                  => /\ Len(conns') = Len(conns) + 1
                     /\ servers'[e] = Len(conns')

\* C9 as stated: the call after the termination always registers the new
\* connection in place of the dead one
C9Claim == [][C9StepAsStated]_vars

\* a connection that was used and has terminated was replaced by the
\* connection the latest call returned
C9Witness ==
    /\ Len(conns) = 2
    /\ lastCall.ext = conns[1].ext
    /\ lastCall.server = 2
    /\ conns[1].told # {}
    /\ ~is_running(conns[1])
    /\ servers[conns[1].ext] = 2

C11Step ==
    lastCall' # NoCall =>
        LET e == lastCall'.ext
            s == lastCall'.server
        IN  /\ s # 0 => (lastCall'.initialized /\ lastCall'.running)
            /\ s = 0 => /\ servers' = servers
                        /\ \A x \in ExtSet : servers'[x] # Len(conns')

\* C11: get_server_for_file returns a connection only when it has completed
\* the handshake and its process is alive; when the start fails it returns
\* none, the failed connection is not registered and self.servers is left as
\* it was
C11Claim == [][C11Step]_vars

\* C12: whatever the operations, no connection is written a second didOpen
\* notification for a file: open_document sends nothing for a file recorded
\* in open_documents, and every file announced on a connection is recorded
C12Thm ==
    /\ "reopened" \notin events
    /\ \A i \in 1..Len(conns) : conns[i].told \subseteq open_documents

\* one connection served two operations; both files were announced on it in
\* the first and open_document sent nothing in the second
C12Witness ==
    /\ ReturnedTwice("goto_definition")
    /\ Len(conns) = 1
    /\ is_running(conns[1])
    /\ conns[1].told = {"a.py", "b.py"}

\* the step is the query step of a loop body and writes a definition or
\* references request to the connection in server
QuerySent ==
    /\ Scanning
    /\ stage = "query"
    /\ stage' = "get_server"
    /\ PosTable[<<ws, symbol>>][cursor] # NoPos
    /\ is_running(conns[server])

C13Step == QuerySent => ws[cursor].name \in conns[server].told

\* C13: every definition or references request about a file is written to a
\* connection that was written a didOpen notification for that file before,
\* also when the connection replaces one that terminated
C13Claim == [][C13Step]_vars

\* C24: in goto_references, a references request is written only after the
\* body of every file was entered in the definitions pass (so each of its
\* definition requests has returned), the definitions pass is never resumed,
\* and definition_locations does not change during the references pass.
C24Step ==
    /\ (QuerySent /\ op = "goto_references" /\ Method = "references")
          => \A i \in 1..Len(ws) : <<1, i>> \in scanned
    /\ (op = "goto_references" /\ pass = 2)
          => /\ definition_locations' = definition_locations
             /\ op' = op => pass' = 2

C24Thm == [][C24Step]_vars

\* the references pass is at its second file, with an exclusion set and a
\* result gathered
C24Witness ==
    /\ op = "goto_references"
    /\ pass = 2
    /\ cursor = 2
    /\ definition_locations # {}
    /\ results # <<>>

\* the messages in response_queue
Buffered == {wire.queue[i] : i \in 1..Len(wire.queue)}

\* C14: when a request has returned, every message put into the inbound
\* buffer that no request returned as its response is still in the buffer
C14Claim == wire.pc = "idle" => (wire.delivered \ wire.returned) \subseteq Buffered

\* C25 (as stated): when _send_request returns and the response to its
\* request was put into the queue before the wait elapsed, it returns that
\* response, whatever else the queue held.
C25Step ==
    (wire.pc # "idle" /\ wire'.pc = "idle") =>
        \A m \in wire.delivered :
            (m.kind = "result" /\ m.id = wire.request_id /\ m.intime) => wire'.ret = m

C25Claim == [][C25Step]_vars

\* the places in wire.sent of the requests written
RequestsSent == {k \in 1..Len(wire.sent) : wire.sent[k].method \in {"initialize", "query"}}

\* a step that writes a message: a notification has no id and leaves the
\* counter as it is, a request carries the counter after its increment
C26Step ==
    Len(wire'.sent) > Len(wire.sent) =>
        LET e == wire'.sent[Len(wire'.sent)]
        IN  IF e.method \in {"initialize", "query"}
            THEN wire'.request_id = wire.request_id + 1 /\ e.id = wire'.request_id
            ELSE wire'.request_id = wire.request_id /\ e.id = 0

\* C26: the counter of a connection starts at 0 and is incremented before
\* each request written, so the first request carries id 1 and each later
\* one an id greater than all before it; a notification carries no id and
\* does not change the counter.
C26Thm ==
    /\ wire.request_id = 0
    /\ [][C26Step]_vars
    /\ [](\A k \in RequestsSent :
             /\ (\A j \in RequestsSent : k <= j) => wire.sent[k].id = 1
             /\ \A j \in RequestsSent : j < k => wire.sent[j].id < wire.sent[k].id)

\* the handshake, a didOpen notification and a query were written
C26Witness ==
    /\ Len(wire.sent) = 4
    /\ wire.sent[1] = [method |-> "initialize", id |-> 1]
    /\ wire.sent[3] = [method |-> "didOpen", id |-> 0]
    /\ wire.sent[4] = [method |-> "query", id |-> 2]
    /\ wire.request_id = 2

\* the requests written whose wait is not over
Outstanding == {wire.sent[k].id : k \in RequestsSent} \ wire.closed

\* C27: at every point a connection has at most one request that was
\* written and has neither been answered nor timed out.
C27Thm == Cardinality(Outstanding) <= 1

\* the query waits for its response after the handshake request was answered
C27Witness ==
    /\ Outstanding = {2}
    /\ 1 \in wire.closed
    /\ wire.pc = "sleep"
    /\ wire.up

\* C28: the first message written on a connection is the initialize
\* request; the initialized notification is written only when a response
\* with a result to that request was returned; no didOpen notification and
\* no query is written before the initialized notification.
C28Thm ==
    /\ wire.sent # <<>> => wire.sent[1].method = "initialize"
    /\ \A k \in 1..Len(wire.sent) :
          /\ wire.sent[k].method = "initialized"
                => \E m \in wire.returned : m.kind = "result" /\ m.id = wire.sent[1].id
          /\ wire.sent[k].method \in {"didOpen", "query"}
                => \E j \in 1..(k - 1) : wire.sent[j].method = "initialized"

\* the handshake was followed by a didOpen notification and a query
C28Witness ==
    /\ Len(wire.sent) = 4
    /\ wire.sent[2].method = "initialized"
    /\ wire.sent[3].method = "query"
    /\ wire.sent[4].method = "didOpen"

\* a returned request returned None or the message with its own id
AnsweredOrTimedOut ==
    (wire.pc = "idle" /\ wire.done > 0)
        => (wire.ret = NoMsg \/ wire.ret.id = wire.request_id)

FindSymbolOver == op = "idle" /\ lastOp = "find_symbol"

\* C17 (as stated): when find_symbol is over, no workspace/symbol request was
\* written for an empty extension group, and one was written for every group
\* that has a file and for which a running connection was to be had.
C17Claim ==
    FindSymbolOver =>
        \A g \in 1..Len(Exts) :
            /\ GroupOf(ws, Exts[g]) = {} => <<1, g>> \notin scanned
            /\ (GroupOf(ws, Exts[g]) # {} /\ <<0, g>> \notin scanned) => <<1, g>> \in scanned

\* a step of LspService.shutdown: the service is idle and a handle is dropped
ShutdownStep ==
    /\ op = "idle"
    /\ \E i \in 1..Len(conns) : conns[i].process /\ ~conns'[i].process

\* C16 (as stated): after shutdown returns, every connection it shut down
\* is not running and not initialized.
C16Step ==
    ShutdownStep =>
        \A i \in Registered : ~is_running(conns'[i]) /\ ~conns'[i].is_initialized

C16Claim == [][C16Step]_vars

\* C34: after LspService.shutdown returns, no process launched during the
\* run is still alive, the processes of connections that were never
\* registered because their handshake failed included.
C34Step == ShutdownStep => \A i \in 1..Len(conns) : ~conns'[i].alive

C34Claim == [][C34Step]_vars

(***************************************************************************)
(* Properties of get_symbol_context.                                       *)
(***************************************************************************)
\* get_symbol_context was called last; ret is what it returned
ContextReturned == lastOp = "get_symbol_context" /\ "context" \in DOMAIN ret

\* C18: get_symbol_context starts no server, sends no message and leaves
\* the connections of the pool, the registrations, the set of open documents
\* and the file index as they are.
C18Step ==
    (lastOp' = "get_symbol_context" /\ ret' # ret) =>
        UNCHANGED <<conns, servers, open_documents, ws>>

C18Thm == [][C18Step]_vars

\* an excerpt of three lines was returned while the pool holds a running
\* connection and no document is open
C18Witness ==
    /\ ContextReturned
    /\ Len(ret.context) = 3
    /\ Len(conns) = 1
    /\ is_running(conns[1])
    /\ open_documents = {}

\* C19: get_symbol_context always returns a context; for a file that cannot
\* be read it is one error line, and for a line number outside 1..N of an
\* N-line file it is the one line stating that this line is out of range.
C19Thm ==
    lastOp = "get_symbol_context" =>
        /\ "context" \in DOMAIN ret
        /\ ~ws[1].readable => ret.context = <<ErrorLine>>
        /\ (ws[1].readable /\ ret.line \notin 1..Len(ws[1].text))
              => ret.context = <<OutOfRangeLine(ret.line)>>

\* line 5 of a 3-line file was asked for
C19Witness ==
    /\ ContextReturned
    /\ ws[1].readable
    /\ Len(ws[1].text) = 3
    /\ ret.line = 5
    /\ ret.context = <<OutOfRangeLine(5)>>

\* the line is empty or a comment
EmptyOrComment(line) == lstrip(line) = <<>> \/ StartsWith(lstrip(line), <<"#">>)

\* the last line (1-based) of the excerpt of the declaration at line d as
\* C20 states it: the line before the first one that is neither empty nor
\* a comment and is indented less than the first body line
StatedLast(lines, d) ==
    LET body == {k \in (d + 1)..Len(lines) : ~EmptyOrComment(lines[k])}
        first == CHOOSE k \in body : \A j \in body : k <= j
        shallower == {k \in body : /\ LeadingWhite(lines[k]) < LeadingWhite(lines[first])
                                   /\ ~StartsWith(lines[k], <<Tab>>)}
    IN  IF body = {} \/ shallower = {} THEN Len(lines)
        ELSE (CHOOSE k \in shallower : \A j \in shallower : k <= j) - 1

\* C20 (as stated): for a declaration line the excerpt is that line, marked,
\* followed by each following line, once and in order, up to the line before
\* the first one indented less than the first body line, or to the end of the
\* file.
C20Claim ==
    (/\ ContextReturned
     /\ ws[1].readable
     /\ ret.line \in 1..Len(ws[1].text)
     /\ IsDeclaration(ws[1].text[ret.line]))
        => /\ Len(ret.context) = StatedLast(ws[1].text, ret.line) - ret.line + 1
           /\ \A k \in 1..Len(ret.context) :
                 /\ ret.context[k].n = ret.line + k - 1
                 /\ ret.context[k].kind = (IF k = 1 THEN "target" ELSE "line")

\* C35: the context of a line of the file, declaration excerpt or window,
\* lists each line at most once, in strictly increasing order of the line
\* numbers, with exactly one line marked as the target.
C35Claim ==
    (ContextReturned /\ ws[1].readable /\ ret.line \in 1..Len(ws[1].text)) =>
        /\ \A j, k \in 1..Len(ret.context) : j < k => ret.context[j].n < ret.context[k].n
        /\ Cardinality({k \in 1..Len(ret.context) : ret.context[k].kind = "target"}) = 1

(***************************************************************************)
(* Properties of find_symbol_position.                                     *)
(***************************************************************************)
\* the (1-based) lines of the file of ws that satisfy one of the three tiers
TierLines ==
    {n \in 1..Len(ws[1].text) :
        \/ KeywordMatch(ws[1].text[n], KwDef, symbol)
        \/ KeywordMatch(ws[1].text[n], KwClass, symbol)
        \/ WordMatches(ws[1].text[n], symbol) # {}}

\* C21: find_symbol_position returns the 0-based index of the first line
\* that satisfies one of the three tiers, and None exactly when no line
\* holds the symbol as a whole word.
C21Thm ==
    lastOp = "find_symbol_position" =>
        /\ ret = NoPos <=> (\A n \in 1..Len(ws[1].text) : WordMatches(ws[1].text[n], symbol) = {})
        /\ TierLines # {} => \A n \in TierLines : ret.line + 1 <= n
        /\ TierLines # {} => ret.line + 1 \in TierLines

\* the symbol was found on the third line only, as a whole word
C21Witness ==
    /\ lastOp = "find_symbol_position"
    /\ symbol = SymGo
    /\ Len(ws[1].text) = 3
    /\ ret.line = 2
    /\ ~KeywordMatch(ws[1].text[3], KwDef, symbol)
    /\ ~KeywordMatch(ws[1].text[3], KwClass, symbol)

\* C32: the column find_symbol_position returns is the 0-based offset, on
\* the returned line, of the first occurrence of the symbol as a whole
\* word, also when the line matched through the def or the class tier.
C32Claim ==
    (lastOp = "find_symbol_position" /\ ret # NoPos) =>
        LET words == WordMatches(ws[1].text[ret.line + 1], symbol)
        IN  /\ ret.character + 1 \in words
            /\ \A i \in words : ret.character + 1 <= i

(***************************************************************************)
(* Properties of the file index.                                           *)
(***************************************************************************)
\* the path lies inside a directory named .git or __pycache__
InsideExcluded(f) ==
    \E k \in 1..(Len(f) - 1) :
        f[k] \in {<<".", "g", "i", "t">>,
                  <<"_", "_", "p", "y", "c", "a", "c", "h", "e", "_", "_">>}

\* C22 (as stated): the index maps each extension to every file beneath the
\* root whose name ends with it, except exactly the files inside a .git or
\* __pycache__ directory.
C22Claim ==
    (lastOp = "index_workspace" /\ ws.listable) =>
        \A e \in ExtSet :
            ret[e] = {f \in ws.files :
                         /\ LiteralAt(f[Len(f)], ExtText(e), Len(f[Len(f)]) - Len(ExtText(e)) + 1)
                         /\ ~InsideExcluded(f)}

\* C23 (as stated): for a root that does not exist or cannot be read, the
\* construction of the index fails instead of yielding an index.
C23Claim ==
    (lastOp = "index_workspace" /\ ~ws.listable) => "exception" \in DOMAIN ret

\* the launched processes of extension e that are alive
AliveOf(e) == {i \in 1..Len(conns) : conns[i].ext = e /\ conns[i].alive}

\* C10: per extension at most one launched server process is alive,
\* registered or not
C10Claim == \A e \in ExtSet : Cardinality(AliveOf(e)) <= 1

(***************************************************************************)
(* The reader thread.                                                      *)
(***************************************************************************)
\* the reader waits in a read for bytes the live server will never write
ReaderWaits ==
    /\ reader.alive
    /\ reader.out = <<>>
    /\ \/ reader.pc = "header" /\ reader.pipe = <<>>
       \/ reader.pc = "content" /\ Len(reader.pipe) < reader.content_length

\* C29: the reader thread ends only when the process has died or the
\* connection was torn down; while the process is alive the thread runs and
\* a well-framed message written last is delivered to the queue, whatever
\* the server wrote before it.
C29Claim ==
    /\ reader.pc \in {"dead", "stopped"} => ~reader.alive
    /\ (ReaderWaits /\ reader.written # <<>> /\ reader.written[Len(reader.written)].framed)
           => /\ reader.queue # <<>>
              /\ reader.queue[Len(reader.queue)] = reader.written[Len(reader.written)].content

\* the contents of the frames written, in order
WrittenContents == [k \in 1..Len(reader.written) |-> reader.written[k].content]

\* C30: for any sequence of well-framed messages, written a byte at a time
\* and read under every interleaving, the queue holds the contents of the
\* messages once each and in the order written (a prefix of them while the
\* reading goes on, all of them once the reader waits for more), and each
\* content is read from exactly the bytes that follow its own header.
C30Thm ==
    (\A k \in 1..Len(reader.written) : reader.written[k].framed) =>
        /\ reader.pc # "dead"
        /\ Len(reader.queue) <= Len(reader.written)
        /\ reader.queue = SubSeq(WrittenContents, 1, Len(reader.queue))
        /\ ReaderWaits =>
               reader.queue = WrittenContents /\ reader.pc = "header" /\ reader.header = <<>>
        /\ reader.pc = "content" =>
               LET f == reader.written[Len(reader.queue) + 1]
               IN  /\ reader.header \o f.content = f.bytes
                   /\ reader.content_length = Len(f.content)

\* two well-framed messages, the first with a blank line inside its content,
\* are both in the queue and the reader waits for the next header
C30Witness ==
    /\ ReaderWaits
    /\ Len(reader.written) = MaxFrames
    /\ \A k \in 1..Len(reader.written) : reader.written[k].framed
    /\ Len(reader.written[1].content) = 6
    /\ reader.written[2].bytes[1] = "A"
    /\ reader.queue = WrittenContents

\* C33: whatever a request returns carries the id of that very request; a
\* response that arrives after its request has timed out stays in the queue
\* and is never the answer to a later request.
C33Thm ==
    /\ (wire.pc = "idle" /\ wire.ret # NoMsg) => wire.ret.id = wire.request_id
    /\ \A m \in wire.returned : m.id \in wire.closed /\ m.id <= wire.request_id
    /\ \A m, k \in wire.returned : m.id = k.id => m = k

\* request 1 timed out, its response arrived afterwards and lies in the
\* queue; request 2 has returned its own response, which arrived later
C33Witness ==
    /\ wire.pc = "idle"
    /\ wire.request_id = 2
    /\ wire.ret.kind = "result"
    /\ wire.ret.id = 2
    /\ \E k \in 1..Len(wire.queue) :
          /\ wire.queue[k].kind = "result"
          /\ wire.queue[k].id = 1
          /\ wire.queue[k].n < wire.ret.n
          /\ ~wire.queue[k].intime
    /\ \A m \in wire.returned : m.id # 1

(***************************************************************************)
(* The outbound framing.                                                   *)
(***************************************************************************)
\* C31: the Content-Length of every message written, texts with characters
\* outside ASCII included, is the number of bytes of the encoded JSON body
\* written after the header.
C31Thm == lastOp = "_send_message" => ret.length = Len(ret.body)

\* a message with a two-byte, a three-byte and a four-byte character was
\* written: 6 + 6 + 12 bytes of escapes between the two quotes
C31Witness ==
    /\ lastOp = "_send_message"
    /\ symbol = <<233, 8364, 128512>>
    /\ ret.length = 26
    /\ \A k \in 1..Len(ret.body) : ret.body[k] < 128

====
